---- MODULE Spec2Model ----
(***************************************************************************)
(* State-machine model of the DE-Architect-Assistant pipeline editor:      *)
(* the App's graph store (formState and its CRUD callbacks, the form list   *)
(* views, auto-design) and the VisualBuilder canvas (viewport, node drag,   *)
(* wiring, panning, click-to-edit, palette drop).                           *)
(*                                                                         *)
(* JavaScript numbers are modelled as exact rationals [n, d] in lowest      *)
(* terms; React state of a component is one record variable whose fields    *)
(* keep the names of the useState/useRef hooks.  Every DOM event is one     *)
(* action: the handlers the event reaches while it bubbles are applied in   *)
(* order to a record st = [fs, vb, uuid] (formState, builder state, the     *)
(* count of crypto.randomUUID() draws).                                     *)
(***************************************************************************)
EXTENDS Integers, Sequences, FiniteSets, TLC

VARIABLES
    formState,          \* App: useState<DeRequestState>
    isAutoGenerating,   \* App: useState(false)
    errors,             \* App: useState<string[]>([])
    loading,            \* App: useState(false)
    response,           \* App: useState<string | null>(null)
    chat,               \* ChatModal: its useState hooks and the streams it reads
    viewMode,           \* App: useState<'form' | 'visual'>('form')
    vb,                 \* VisualBuilder: all of its useState / useRef hooks
    uuid,               \* number of crypto.randomUUID() values drawn so far
    pointer,            \* where the mouse pointer is, in client coordinates
    held,               \* mouse buttons currently pressed inside the canvas
    downTarget,         \* element on which the primary button went down
    pendingClick,       \* element the browser is about to dispatch click on
    gestures,           \* number of presses, wheel turns and drops so far
    grab,               \* history: what startNodeDrag captured at press
                        \* and whether all was idle then
    last                \* history: the last event handled

vars == <<formState, isAutoGenerating, errors, loading, response, chat,
          viewMode, vb, uuid, pointer, held, downTarget, pendingClick, gestures,
          grab, last>>

-----------------------------------------------------------------------------
(* Bounds of the model *)

MaxUuid == 2        \* crypto.randomUUID() draws in one behaviour
MaxErrors == 2      \* length of the error list
RectLeft == 0       \* canvas getBoundingClientRect().left
RectTop == 0        \* canvas getBoundingClientRect().top

-----------------------------------------------------------------------------
(* JavaScript numbers as exact rationals *)

Abs(i) == IF i < 0 THEN -i ELSE i

RECURSIVE GCD(_, _)
GCD(a, b) == IF b = 0 THEN a ELSE GCD(b, a % b)

Rat(n, d) ==
    LET s == IF d < 0 THEN -1 ELSE 1
        g == GCD(Abs(n), Abs(d))
    IN  [n |-> (s * n) \div g, d |-> (s * d) \div g]

Num(i) == [n |-> i, d |-> 1]

RAdd(a, b) == Rat(a.n * b.d + b.n * a.d, a.d * b.d)
RSub(a, b) == Rat(a.n * b.d - b.n * a.d, a.d * b.d)
RMul(a, b) == Rat(a.n * b.n, a.d * b.d)
RDiv(a, b) == Rat(a.n * b.d, a.d * b.n)
RLess(a, b) == a.n * b.d < b.n * a.d
RMax(a, b) == IF RLess(a, b) THEN b ELSE a
RMin(a, b) == IF RLess(b, a) THEN b ELSE a

-----------------------------------------------------------------------------
(* types.ts *)

Null == "null"

NoPos == [defined |-> FALSE]
NodePosition(x, y) == [defined |-> TRUE, x |-> x, y |-> y]

Node(id, name, position) == [id |-> id, name |-> name, position |-> position]
Connection(id, sourceId, targetId) ==
    [id |-> id, sourceId |-> sourceId, targetId |-> targetId]

Kinds == {"source", "transformation", "target"}

\* crypto.randomUUID(): the k-th value drawn, distinct from every other id
UUID(k) == "u" \o ToString(k)

\* Array.prototype.find on the id: the index of the first node with that
\* id, 0 when there is none
FindIndex(nodes, id) ==
    IF \E i \in 1..Len(nodes) : nodes[i].id = id
    THEN CHOOSE i \in 1..Len(nodes) :
            nodes[i].id = id /\ \A j \in 1..(i - 1) : nodes[j].id # id
    ELSE 0

\* { ...node, ...data }
Merge(node, data) ==
    [f \in DOMAIN node |-> IF f \in DOMAIN data THEN data[f] ELSE node[f]]

-----------------------------------------------------------------------------
(* App: the graph store *)

\* text fields are tuples of one-character strings
RECURSIVE TrimStart(_)
TrimStart(t) == IF t # <<>> /\ Head(t) = " " THEN TrimStart(Tail(t)) ELSE t

RECURSIVE TrimEnd(_)
TrimEnd(t) ==
    IF t # <<>> /\ t[Len(t)] = " " THEN TrimEnd(SubSeq(t, 1, Len(t) - 1)) ELSE t

\* String.prototype.trim
Trim(t) == TrimEnd(TrimStart(t))

\* useState<string | null>(null): null is the empty sequence, a string s is <<s>>
NoResponse == <<>>

initialState ==
    [techRequirements |-> <<>>,
     productRequirements |-> <<>>,
     existingTools |-> <<"BigQuery", "S3">>,
     dataSources |-> <<Node("1", "MySQL", NodePosition(Num(50), Num(50)))>>,
     transformationNodes |->
         <<Node("t1", "Clean & Join", NodePosition(Num(350), Num(50)))>>,
     dataTargets |-> <<Node("10", "Redshift", NodePosition(Num(650), Num(50)))>>,
     connections |-> <<Connection("c1", "1", "t1"), Connection("c2", "t1", "10")>>]

\* nodes.map(node => node.id === id ? { ...node, ...data } : node)
updateNodes(nodes, id, data) ==
    [i \in 1..Len(nodes) |->
        IF nodes[i].id = id THEN Merge(nodes[i], data) ELSE nodes[i]]

updateSourceNode(st, id, data) ==
    [st EXCEPT !.fs.dataSources = updateNodes(@, id, data)]

updateTransformationNode(st, id, data) ==
    [st EXCEPT !.fs.transformationNodes = updateNodes(@, id, data)]

updateTargetNode(st, id, data) ==
    [st EXCEPT !.fs.dataTargets = updateNodes(@, id, data)]

\* position || { x: 50, y: 50 + formState.dataSources.length * 150 }
\* an addSourceNode whose default position does not depend on the count
addSourceNodeAtTop(st, position) ==
    LET newNode == Node(UUID(st.uuid + 1), "",
            IF position.defined THEN position
            ELSE NodePosition(Num(50), Num(50)))
    IN  [st EXCEPT !.fs.dataSources = Append(@, newNode), !.uuid = @ + 1]

addSourceNode(st, position) ==
    LET newNode == Node(UUID(st.uuid + 1), "",
            IF position.defined THEN position
            ELSE NodePosition(Num(50), Num(50 + Len(st.fs.dataSources) * 150)))
    IN  [st EXCEPT !.fs.dataSources = Append(@, newNode), !.uuid = @ + 1]

addTransformationNode(st, position) ==
    LET newNode == Node(UUID(st.uuid + 1), "",
            IF position.defined THEN position
            ELSE NodePosition(Num(350),
                              Num(50 + Len(st.fs.transformationNodes) * 150)))
    IN  [st EXCEPT !.fs.transformationNodes = Append(@, newNode), !.uuid = @ + 1]

addTargetNode(st, position) ==
    LET newNode == Node(UUID(st.uuid + 1), "",
            IF position.defined THEN position
            ELSE NodePosition(Num(650), Num(50 + Len(st.fs.dataTargets) * 150)))
    IN  [st EXCEPT !.fs.dataTargets = Append(@, newNode), !.uuid = @ + 1]

\* the add handler of a kind
addNode(st, kind, position) ==
    CASE kind = "source" -> addSourceNode(st, position)
      [] kind = "transformation" -> addTransformationNode(st, position)
      [] OTHER -> addTargetNode(st, position)

\* a faulty removal that keeps the connections of the removed source
removeSourceNodeKeepingEdges(st, id) ==
    [st EXCEPT !.fs.dataSources = SelectSeq(@, LAMBDA node : node.id # id)]

removeSourceNode(st, id) ==
    [st EXCEPT
        !.fs.dataSources = SelectSeq(@, LAMBDA node : node.id # id),
        !.fs.connections =
            SelectSeq(@, LAMBDA c : c.sourceId # id /\ c.targetId # id)]

removeTransformationNode(st, id) ==
    [st EXCEPT
        !.fs.transformationNodes = SelectSeq(@, LAMBDA node : node.id # id),
        !.fs.connections =
            SelectSeq(@, LAMBDA c : c.sourceId # id /\ c.targetId # id)]

removeTargetNode(st, id) ==
    [st EXCEPT
        !.fs.dataTargets = SelectSeq(@, LAMBDA node : node.id # id),
        !.fs.connections =
            SelectSeq(@, LAMBDA c : c.sourceId # id /\ c.targetId # id)]

\* a faulty addConnection that stores the two ends the wrong way round
addConnectionReversed(st, sourceId, targetId) ==
    IF sourceId = targetId THEN st
    ELSE [st EXCEPT
            !.fs.connections =
                Append(@, Connection(UUID(st.uuid + 1), targetId, sourceId)),
            !.uuid = @ + 1]

\* Prevent duplicates and self-loops; the id is drawn only past both guards
addConnection(st, sourceId, targetId) ==
    IF sourceId = targetId THEN st
    ELSE IF \E i \in 1..Len(st.fs.connections) :
                /\ st.fs.connections[i].sourceId = sourceId
                /\ st.fs.connections[i].targetId = targetId
         THEN st
    ELSE [st EXCEPT
            !.fs.connections =
                Append(@, Connection(UUID(st.uuid + 1), sourceId, targetId)),
            !.uuid = @ + 1]

\* a removal that drops the oldest connection, whatever the id
removeOldestConnection(st, id) ==
    [st EXCEPT !.fs.connections = IF @ = <<>> THEN @ ELSE Tail(@)]

removeConnection(st, id) ==
    [st EXCEPT !.fs.connections = SelectSeq(@, LAMBDA c : c.id # id)]

\* the collection of one kind, and the callbacks the builder receives for it
Coll(fs, kind) ==
    CASE kind = "source" -> fs.dataSources
      [] kind = "transformation" -> fs.transformationNodes
      [] OTHER -> fs.dataTargets

onUpdate(st, kind, id, data) ==
    CASE kind = "source" -> updateSourceNode(st, id, data)
      [] kind = "transformation" -> updateTransformationNode(st, id, data)
      [] OTHER -> updateTargetNode(st, id, data)

onRemove(st, kind, id) ==
    CASE kind = "source" -> removeSourceNode(st, id)
      [] kind = "transformation" -> removeTransformationNode(st, id)
      [] OTHER -> removeTargetNode(st, id)

\* handleInputChange(field, value): setFormState(prev => ({...prev, [field]: value}))
handleInputChange(fs, kind, nodes) ==
    CASE kind = "source" -> [fs EXCEPT !.dataSources = nodes]
      [] kind = "transformation" -> [fs EXCEPT !.transformationNodes = nodes]
      [] OTHER -> [fs EXCEPT !.dataTargets = nodes]

\* SourceNodeList / TransformationNodeList (form view):
\* addNode appends a node without a position, removeNode filters the list
listAddNode(nodes, u) == Append(nodes, Node(UUID(u + 1), "", NoPos))

listRemoveNode(nodes, id) == SelectSeq(nodes, LAMBDA node : node.id # id)

listUpdateNode(nodes, id, value) == updateNodes(nodes, id, [name |-> value])

-----------------------------------------------------------------------------
(* VisualBuilder: state and handlers *)

NoNode == Node(Null, "", NoPos)

initialBuilder ==
    [viewport |-> [x |-> Num(0), y |-> Num(0), zoom |-> Num(1)],
     isPanning |-> FALSE,
     lastMouseRef |-> [x |-> 0, y |-> 0],
     draggingId |-> Null,
     dragOffset |-> [x |-> Num(0), y |-> Num(0)],
     hasMovedRef |-> FALSE,
     connectingSourceId |-> Null,
     mousePos |-> NoPos,
     editModal |-> [isOpen |-> FALSE, node |-> NoNode, type |-> Null]]

\* a React.MouseEvent
MouseEvent(button, clientX, clientY) ==
    [button |-> button, clientX |-> clientX, clientY |-> clientY]

\* a conversion that takes off the offset and forgets the zoom
screenToWorldUnscaled(b, screenX, screenY) ==
    [x |-> RSub(Num(screenX - RectLeft), b.viewport.x),
     y |-> RSub(Num(screenY - RectTop), b.viewport.y)]

screenToWorld(b, screenX, screenY) ==
    [x |-> RDiv(RSub(Num(screenX - RectLeft), b.viewport.x), b.viewport.zoom),
     y |-> RDiv(RSub(Num(screenY - RectTop), b.viewport.y), b.viewport.zoom)]

handleMouseDown(st, e) ==
    IF e.button = 1 \/ e.button = 0
    THEN [st EXCEPT !.vb.isPanning = TRUE,
                    !.vb.lastMouseRef = [x |-> e.clientX, y |-> e.clientY]]
    ELSE st

\* TRUE when startNodeDrag gets past its early returns to e.stopPropagation()
startNodeDragStops(st, e) ==
    st.vb.connectingSourceId = Null /\ e.button = 0

startNodeDrag(st, e, id, currentPos) ==
    IF st.vb.connectingSourceId # Null THEN st
    ELSE IF e.button # 0 THEN st
    ELSE LET worldMouse == screenToWorld(st.vb, e.clientX, e.clientY)
         IN  [st EXCEPT
                !.vb.draggingId = id,
                !.vb.hasMovedRef = FALSE,
                !.vb.dragOffset =
                    IF currentPos.defined
                    THEN [x |-> RSub(worldMouse.x, currentPos.x),
                          y |-> RSub(worldMouse.y, currentPos.y)]
                    ELSE @]

\* a wire start that keeps the preview point in screen coordinates
startWiringOnScreen(st, e, id) ==
    [st EXCEPT !.vb.connectingSourceId = id,
               !.vb.mousePos = NodePosition(Num(e.clientX - RectLeft),
                                            Num(e.clientY - RectTop))]

startWiring(st, e, id) ==
    LET worldMouse == screenToWorld(st.vb, e.clientX, e.clientY)
    IN  [st EXCEPT !.vb.connectingSourceId = id,
                   !.vb.mousePos = NodePosition(worldMouse.x, worldMouse.y)]

endWiring(st, targetId) ==
    LET s1 == IF st.vb.connectingSourceId # Null
                 /\ st.vb.connectingSourceId # targetId
              THEN addConnection(st, st.vb.connectingSourceId, targetId)
              ELSE st
    IN  [s1 EXCEPT !.vb.connectingSourceId = Null, !.vb.mousePos = NoPos]

\* the lower clamp of a dragged position
DragFloor == -500

\* sources.find / transformations.find / targets.find on draggingId
dragKind(fs, id) ==
    IF \E i \in 1..Len(fs.dataSources) : fs.dataSources[i].id = id
    THEN "source"
    ELSE IF \E i \in 1..Len(fs.transformationNodes) :
                fs.transformationNodes[i].id = id
    THEN "transformation"
    ELSE IF \E i \in 1..Len(fs.dataTargets) : fs.dataTargets[i].id = id
    THEN "target"
    ELSE Null

\* a move handler whose pan keeps measuring from the pointer at the press
onMouseMoveFromPress(st, e) ==
    IF st.vb.isPanning
    THEN [st EXCEPT
            !.vb.viewport.x = RAdd(@, Num(e.clientX - st.vb.lastMouseRef.x)),
            !.vb.viewport.y = RAdd(@, Num(e.clientY - st.vb.lastMouseRef.y))]
    ELSE st

onMouseMove(st, e) ==
    IF st.vb.isPanning
    THEN LET dx == e.clientX - st.vb.lastMouseRef.x
             dy == e.clientY - st.vb.lastMouseRef.y
         IN  [st EXCEPT
                !.vb.viewport.x = RAdd(@, Num(dx)),
                !.vb.viewport.y = RAdd(@, Num(dy)),
                !.vb.lastMouseRef = [x |-> e.clientX, y |-> e.clientY]]
    ELSE LET worldMouse == screenToWorld(st.vb, e.clientX, e.clientY)
         IN  IF st.vb.connectingSourceId # Null
             THEN [st EXCEPT
                    !.vb.mousePos = NodePosition(worldMouse.x, worldMouse.y)]
             ELSE IF st.vb.draggingId # Null
             THEN LET newX == RSub(worldMouse.x, st.vb.dragOffset.x)
                      newY == RSub(worldMouse.y, st.vb.dragOffset.y)
                      clampedX == RMax(Num(DragFloor), newX)
                      clampedY == RMax(Num(DragFloor), newY)
                      kind == dragKind(st.fs, st.vb.draggingId)
                      s1 == [st EXCEPT !.vb.hasMovedRef = TRUE]
                  IN  IF kind = Null THEN s1
                      ELSE onUpdate(s1, kind, st.vb.draggingId,
                              [position |-> NodePosition(clampedX, clampedY)])
             ELSE st

\* a release handler that forgets to end the pan
onMouseUpKeepingPan(st) ==
    [st EXCEPT !.vb.draggingId = Null,
               !.vb.connectingSourceId = Null,
               !.vb.mousePos = NoPos]

\* a release that also forgets that the node was moved
onMouseUpClearingMoved(st) ==
    [st EXCEPT !.vb.draggingId = Null,
               !.vb.connectingSourceId = Null,
               !.vb.mousePos = NoPos,
               !.vb.isPanning = FALSE,
               !.vb.hasMovedRef = FALSE]

onMouseUp(st) ==
    [st EXCEPT !.vb.draggingId = Null,
               !.vb.connectingSourceId = Null,
               !.vb.mousePos = NoPos,
               !.vb.isPanning = FALSE]

openEdit(st, node, type) ==
    IF st.vb.hasMovedRef \/ st.vb.connectingSourceId # Null \/ st.vb.isPanning
    THEN [st EXCEPT !.vb.hasMovedRef = FALSE]
    ELSE [st EXCEPT !.vb.editModal =
                        [isOpen |-> TRUE, node |-> node, type |-> type]]

handleSaveNode(st, updatedData) ==
    IF st.vb.editModal.type = "source"
    THEN updateSourceNode(st, st.vb.editModal.node.id, updatedData)
    ELSE IF st.vb.editModal.type = "transformation"
    THEN updateTransformationNode(st, st.vb.editModal.node.id, updatedData)
    ELSE updateTargetNode(st, st.vb.editModal.node.id, updatedData)

\* NodeEditorModal onClose: setEditModal({ ...editModal, isOpen: false })
closeEdit(st) == [st EXCEPT !.vb.editModal.isOpen = FALSE]

\* half the node's width (200) and approximate height (80)
HalfWidth == 100
HalfHeight == 40

\* a drop that puts the corner of the new node, not its centre, at the cursor
handleDropAtCorner(st, e, type) ==
    IF type = "" THEN st
    ELSE LET worldPos == screenToWorld(st.vb, e.clientX, e.clientY)
             position == NodePosition(RMax(Num(0), worldPos.x),
                                      RMax(Num(0), worldPos.y))
         IN  IF type = "source" THEN addSourceNode(st, position)
             ELSE IF type = "transformation"
             THEN addTransformationNode(st, position)
             ELSE addTargetNode(st, position)

handleDrop(st, e, type) ==
    IF type = "" THEN st
    ELSE LET worldPos == screenToWorld(st.vb, e.clientX, e.clientY)
             position ==
                NodePosition(RMax(Num(0), RSub(worldPos.x, Num(HalfWidth))),
                             RMax(Num(0), RSub(worldPos.y, Num(HalfHeight))))
         IN  IF type = "source" THEN addSourceNode(st, position)
             ELSE IF type = "transformation"
             THEN addTransformationNode(st, position)
             ELSE addTargetNode(st, position)

\* useEffect "Assign default positions if missing": one onUpdate call per
\* node of the rendered list that has no position, in list order
RECURSIVE defaultPositions(_, _, _, _, _)
defaultPositions(st, nodes, kind, x, i) ==
    IF i > Len(nodes) THEN st
    ELSE defaultPositions(
            IF ~nodes[i].position.defined
            THEN onUpdate(st, kind, nodes[i].id,
                    [position |-> NodePosition(Num(x), Num(50 + (i - 1) * 150))])
            ELSE st,
            nodes, kind, x, i + 1)

assignDefaultPositions(st) ==
    LET s1 == defaultPositions(st, st.fs.dataSources, "source", 50, 1)
        s2 == defaultPositions(s1, st.fs.transformationNodes,
                               "transformation", 350, 1)
    IN  defaultPositions(s2, st.fs.dataTargets, "target", 650, 1)

WheelEvent(deltaY, clientX, clientY) ==
    [deltaY |-> deltaY, clientX |-> clientX, clientY |-> clientY]

\* a wheel handler that lets the zoom leave [0.1, 5]
handleWheelUnclamped(st, e) ==
    LET viewport == st.vb.viewport
        newZoom == RMul(viewport.zoom, RAdd(Num(1), Rat(-e.deltaY, 1000)))
    IN  [st EXCEPT !.vb.viewport = [x |-> viewport.x, y |-> viewport.y,
                                    zoom |-> newZoom]]

\* zoomSensitivity = -0.001; the zoom is kept within [0.1, 5] and the world
\* point under the cursor keeps its screen position
handleWheel(st, e) ==
    LET viewport == st.vb.viewport
        delta == Rat(-e.deltaY, 1000)
        newZoom == RMax(Rat(1, 10),
                        RMin(Num(5), RMul(viewport.zoom, RAdd(Num(1), delta))))
        mouseX == Num(e.clientX - RectLeft)
        mouseY == Num(e.clientY - RectTop)
        worldX == RDiv(RSub(mouseX, viewport.x), viewport.zoom)
        worldY == RDiv(RSub(mouseY, viewport.y), viewport.zoom)
        newX == RSub(mouseX, RMul(worldX, newZoom))
        newY == RSub(mouseY, RMul(worldY, newZoom))
    IN  [st EXCEPT !.vb.viewport = [x |-> newX, y |-> newY, zoom |-> newZoom]]

-----------------------------------------------------------------------------
(* VisualBuilder: the rendered elements and the path an event bubbles along *)

Element(el, kind, i, id) == [el |-> el, kind |-> kind, i |-> i, id |-> id]

Canvas == Element("canvas", "", 0, Null)
NoTarget == Element("none", "", 0, Null)

findNode(fs, id) ==
    LET k == dragKind(fs, id)
    IN  IF k = Null THEN NoNode
        ELSE Coll(fs, k)[FindIndex(Coll(fs, k), id)]

\* Source nodes render an output handle only; Transformation and Target
\* nodes render an input and an output handle.  "trash" is the remove button.
\* node parts where a source has an input handle as well
NodePartsWithInput(kind) == {"body", "trash", "input", "output"}

NodeParts(kind) ==
    IF kind = "source" THEN {"body", "trash", "output"}
    ELSE {"body", "trash", "input", "output"}

NodeElements(fs) ==
    UNION {UNION {{Element(el, kind, i, Coll(fs, kind)[i].id) :
                      el \in NodeParts(kind)} :
                  i \in 1..Len(Coll(fs, kind))} :
           kind \in Kinds}

\* renderConnections: a connection is drawn when both ends resolve to
\* positioned nodes; "hit" is its 15px click path, "delete" its X button
ConnectionElements(fs) ==
    UNION {{Element(el, "connection", i, fs.connections[i].id) :
               el \in {"hit", "delete"}} :
           i \in {j \in 1..Len(fs.connections) :
                    /\ findNode(fs, fs.connections[j].sourceId).position.defined
                    /\ findNode(fs, fs.connections[j].targetId).position.defined}}

Elements(fs) == {Canvas} \cup NodeElements(fs) \cup ConnectionElements(fs)

NodeOf(fs, tg) == Coll(fs, tg.kind)[tg.i]

\* mousedown: output handle -> startWiring (stops); node div -> startNodeDrag,
\* which stops the event only past its guards; the X button stops it; all
\* else reaches the canvas' handleMouseDown
mouseDown(st, tg, e) ==
    CASE tg.el = "output" -> startWiring(st, e, tg.id)
      [] tg.el = "delete" -> st
      [] tg.el \in {"body", "trash", "input"} ->
            IF startNodeDragStops(st, e)
            THEN startNodeDrag(st, e, tg.id, NodeOf(st.fs, tg).position)
            ELSE handleMouseDown(
                    startNodeDrag(st, e, tg.id, NodeOf(st.fs, tg).position), e)
      [] OTHER -> handleMouseDown(st, e)

\* a faulty dispatch in which every part of a node ends a wire as its input
\* anchor does
mouseUpOnAnyPart(st, tg) ==
    IF tg.el \in {"input", "output", "body"}
    THEN endWiring(st, tg.id) ELSE onMouseUp(st)

\* mouseup: an input handle -> endWiring (stops); all else reaches onMouseUp
mouseUp(st, tg) ==
    IF tg.el = "input" THEN endWiring(st, tg.id) ELSE onMouseUp(st)

\* the element a click is dispatched on after a primary-button release: the
\* pressed element when released on it, the node div when press and release
\* are on two parts of one node, none otherwise
clickTarget(down, up) ==
    IF down = up THEN up
    ELSE IF /\ down.kind \in Kinds
            /\ down.kind = up.kind /\ down.i = up.i /\ down.id = up.id
    THEN Element("body", up.kind, up.i, up.id)
    ELSE NoTarget

\* click: the remove button and the connection paths stop the event; the
\* other parts of a node bubble to the node div's onClick
click(st, tg) ==
    CASE tg.el = "trash" -> onRemove(st, tg.kind, tg.id)
      [] tg.el \in {"hit", "delete"} -> removeConnection(st, tg.id)
      [] tg.el \in {"body", "input", "output"} ->
            openEdit(st, NodeOf(st.fs, tg), tg.kind)
      [] OTHER -> st

-----------------------------------------------------------------------------
(* Auto-design: generatePipelineLayout and handleAutoPipeline *)

\* (result.dataSources || []).map(s => ({ id: s.id || crypto.randomUUID(), ... }))
RECURSIVE safeNodes(_, _, _, _)
safeNodes(raw, u, defaultName, acc) ==
    IF raw = <<>> THEN [nodes |-> acc, uuid |-> u]
    ELSE LET r == Head(raw)
             drawn == r.id = ""
         IN  safeNodes(Tail(raw), IF drawn THEN u + 1 ELSE u, defaultName,
                Append(acc, Node(IF drawn THEN UUID(u + 1) ELSE r.id,
                                 IF r.name = "" THEN defaultName ELSE r.name,
                                 NoPos)))

safeConnections(raw, u) ==
    [i \in 1..Len(raw) |->
        Connection(UUID(u + i), raw[i].sourceId, raw[i].targetId)]

generatePipelineLayout(result, u) ==
    LET s == safeNodes(result.dataSources, u, "Unknown Source", <<>>)
        t == safeNodes(result.transformationNodes, s.uuid,
                       "Processing Step", <<>>)
        g == safeNodes(result.dataTargets, t.uuid, "Unknown Target", <<>>)
    IN  [dataSources |-> s.nodes,
         transformationNodes |-> t.nodes,
         dataTargets |-> g.nodes,
         connections |-> safeConnections(result.connections, g.uuid),
         uuid |-> g.uuid + Len(result.connections)]

Max3(a, b, c) ==
    LET m == IF a < b THEN b ELSE a IN IF m < c THEN c ELSE m

verticalSpacing == 180

\* 50 + (maxTotalHeight - totalHeight) / 2 + index * verticalSpacing
calculateY(index, total, maxCount) ==
    RAdd(RAdd(Num(50),
              Rat((maxCount - 1) * verticalSpacing
                    - (total - 1) * verticalSpacing, 2)),
         Num(index * verticalSpacing))

spaced(nodes, x, maxCount) ==
    [i \in 1..Len(nodes) |->
        [nodes[i] EXCEPT !.position =
            NodePosition(Num(x), calculateY(i - 1, Len(nodes), maxCount))]]

\* a success path that replaces the nodes and keeps the connections it had
autoPipelineLayoutKeepingConnections(st, result) ==
    LET layout == generatePipelineLayout(result, st.uuid)
        maxCount == Max3(Len(layout.dataSources),
                         Len(layout.transformationNodes),
                         Len(layout.dataTargets))
    IN  [st EXCEPT
            !.fs.dataSources = spaced(layout.dataSources, 50, maxCount),
            !.fs.transformationNodes =
                spaced(layout.transformationNodes, 400, maxCount),
            !.fs.dataTargets = spaced(layout.dataTargets, 750, maxCount),
            !.uuid = layout.uuid]

\* the success path of handleAutoPipeline, from the parsed service response
autoPipelineLayout(st, result) ==
    LET layout == generatePipelineLayout(result, st.uuid)
        maxCount == Max3(Len(layout.dataSources),
                         Len(layout.transformationNodes),
                         Len(layout.dataTargets))
    IN  [st EXCEPT
            !.fs.dataSources = spaced(layout.dataSources, 50, maxCount),
            !.fs.transformationNodes =
                spaced(layout.transformationNodes, 400, maxCount),
            !.fs.dataTargets = spaced(layout.dataTargets, 750, maxCount),
            !.fs.connections = layout.connections,
            !.uuid = layout.uuid]

\* fillExample
exampleState ==
    [techRequirements |->
        <<"D", "a", "i", "l", "y", " ", "s", "y", "n", "c">>,
     productRequirements |-> <<"d", "a", "s", "h">>,
     existingTools |-> <<"BigQuery", "Redshift", "S3">>,
     dataSources |->
        <<Node("101", "BigQuery", NodePosition(Num(50), Num(50))),
          Node("102", "MySQL", NodePosition(Num(50), Num(250)))>>,
     transformationNodes |->
        <<Node("t101", "Consolidate Orders", NodePosition(Num(400), Num(150)))>>,
     dataTargets |->
        <<Node("201", "Redshift.orders_historical",
               NodePosition(Num(750), Num(50))),
          Node("202", "S3.backup_orders", NodePosition(Num(750), Num(250)))>>,
     connections |->
        <<Connection("c1", "101", "t101"), Connection("c2", "102", "t101"),
          Connection("c3", "t101", "201"), Connection("c4", "t101", "202")>>]

-----------------------------------------------------------------------------
(* The state machine *)

St == [fs |-> formState, vb |-> vb, uuid |-> uuid]

Lengths(fs) ==
    <<Len(fs.dataSources), Len(fs.transformationNodes), Len(fs.dataTargets)>>

\* no drag, no wire and no pan in progress
AllIdle(b) ==
    b.draggingId = Null /\ b.connectingSourceId = Null /\ ~b.isPanning

NoGrab == [id |-> Null, kind |-> "", p0 |-> NoPos, g |-> NoPos,
           idle |-> FALSE]

\* the last event: the operation, the part of the canvas it was targeted at
\* and whether a wire was being drawn when it arrived
Event(op, el) ==
    [op |-> op, el |-> el, wiring |-> vb.connectingSourceId # Null]

\* React commits the handlers' updates and renders; the default-position
\* effect of a mounted builder runs on mount and when a list length changed
Render(st, mode) ==
    LET runEffect == /\ mode = "visual"
                     /\ \/ viewMode # "visual"
                        \/ Lengths(st.fs) # Lengths(formState)
        s2 == IF runEffect THEN assignDefaultPositions(st) ELSE st
    IN  /\ s2.uuid <= MaxUuid
        /\ formState' = s2.fs
        /\ vb' = s2.vb
        /\ uuid' = s2.uuid
        /\ viewMode' = mode

Buttons == {0, 1, 2}

\* buttons held down at once
MaxHeld == 2

\* presses, wheel turns, palette drops and zoom steps of one session
MaxGestures == 2

\* no click is waiting to be dispatched: a release and its click are handled
\* back to back, before any other event or promise callback
Quiet == pendingClick = NoTarget

\* the canvas receives pointer events while the builder is mounted and the
\* node editor's full-screen overlay is closed
CanvasLive == viewMode = "visual" /\ ~vb.editModal.isOpen /\ Quiet

\* a press where the pointer is
MouseDown(tg, button) ==
    LET e == MouseEvent(button, pointer.x, pointer.y)
        w == screenToWorld(vb, pointer.x, pointer.y)
    IN  /\ CanvasLive
        /\ button \notin held
        /\ Cardinality(held) < MaxHeld
        /\ gestures < MaxGestures
        /\ Render(mouseDown(St, tg, e), viewMode)
        /\ held' = held \cup {button}
        /\ downTarget' = IF button = 0 THEN tg ELSE downTarget
        /\ gestures' = gestures + 1
        /\ grab' = IF tg.el \in {"body", "trash", "input"}
                      /\ startNodeDragStops(St, e)
                   THEN [id |-> tg.id, kind |-> tg.kind,
                         p0 |-> NodeOf(formState, tg).position,
                         g |-> NodePosition(w.x, w.y),
                         idle |-> AllIdle(vb)]
                   ELSE grab
        /\ last' = Event("mousedown", tg.el)
        /\ UNCHANGED <<loading, response, chat>>
        /\ UNCHANGED <<isAutoGenerating, errors, pointer, pendingClick>>

\* the pointer arrives at (cx, cy)
MouseMove(cx, cy) ==
    /\ CanvasLive
    /\ Render(onMouseMove(St, MouseEvent(0, cx, cy)), viewMode)
    /\ pointer' = [x |-> cx, y |-> cy]
    /\ last' = Event("mousemove", "canvas")
    /\ UNCHANGED <<loading, response, chat>>
    /\ UNCHANGED <<isAutoGenerating, errors, held, downTarget, pendingClick,
                   gestures, grab>>

\* a release; for the primary button the browser then dispatches a click on
\* the element pressed and released on
MouseUp(tg, button) ==
    /\ CanvasLive
    /\ Render(mouseUp(St, tg), viewMode)
    /\ held' = held \ {button}
    /\ downTarget' = IF button = 0 THEN NoTarget ELSE downTarget
    /\ pendingClick' = IF button = 0 /\ downTarget \in Elements(formState)
                       THEN clickTarget(downTarget, tg)
                       ELSE NoTarget
    /\ grab' = IF vb'.draggingId = Null THEN NoGrab ELSE grab
    /\ last' = Event("mouseup", tg.el)
    /\ UNCHANGED <<loading, response, chat>>
    /\ UNCHANGED <<isAutoGenerating, errors, pointer, gestures>>

\* the click that follows a release, before any other event
Click ==
    /\ pendingClick # NoTarget
    /\ Render(IF pendingClick \in Elements(formState)
              THEN click(St, pendingClick) ELSE St, viewMode)
    /\ pendingClick' = NoTarget
    /\ last' = Event("click", pendingClick.el)
    /\ UNCHANGED <<loading, response, chat>>
    /\ UNCHANGED <<isAutoGenerating, errors, pointer, held, downTarget,
                   gestures, grab>>

\* onMouseLeave={onMouseUp}; buttons let go outside the canvas send no event
MouseLeave ==
    /\ viewMode = "visual"
    /\ Quiet
    /\ Render(onMouseUp(St), viewMode)
    /\ held' = {}
    /\ downTarget' = NoTarget
    /\ grab' = NoGrab
    /\ last' = Event("mouseleave", "canvas")
    /\ UNCHANGED <<loading, response, chat>>
    /\ UNCHANGED <<isAutoGenerating, errors, pointer, pendingClick, gestures>>

\* a turn of the wheel where the pointer is
Wheel(deltaY) ==
    /\ CanvasLive
    /\ gestures < MaxGestures
    /\ Render(handleWheel(St, WheelEvent(deltaY, pointer.x, pointer.y)),
              viewMode)
    /\ gestures' = gestures + 1
    /\ last' = Event("wheel", "canvas")
    /\ UNCHANGED <<loading, response, chat>>
    /\ UNCHANGED <<isAutoGenerating, errors, pointer, held, downTarget,
                   pendingClick, grab>>

DropTypes == {"source", "transformation", "target", ""}

\* a palette item dragged (HTML drag and drop) onto the canvas
Drop(type, cx, cy) ==
    /\ CanvasLive
    /\ gestures < MaxGestures
    /\ Render(handleDrop(St, MouseEvent(0, cx, cy), type), viewMode)
    /\ gestures' = gestures + 1
    /\ pointer' = [x |-> cx, y |-> cy]
    /\ last' = Event("drop", type)
    /\ UNCHANGED <<loading, response, chat>>
    /\ UNCHANGED <<isAutoGenerating, errors, held, downTarget, pendingClick,
                   grab>>

\* nodes added through the add handlers in one session
MaxAdds == 3

\* positions handed to the add handlers; NoPos is a call without a position
AddPositions == {NoPos, NodePosition(Num(50), Num(200))}

\* addSourceNode / addTransformationNode / addTargetNode called by the host
AddNode(kind, position) ==
    /\ viewMode = "visual"
    /\ Quiet
    /\ uuid < MaxAdds
    /\ Render(addNode(St, kind, position), viewMode)
    /\ last' = Event(IF position.defined THEN "addNodeAt" ELSE "addNode", kind)
    /\ UNCHANGED <<loading, response, chat>>
    /\ UNCHANGED <<isAutoGenerating, errors, pointer, held, downTarget,
                   pendingClick, gestures, grab>>

CloseEdit ==
    /\ viewMode = "visual"
    /\ vb.editModal.isOpen
    /\ Render(closeEdit(St), viewMode)
    /\ last' = Event("closeEdit", "modal")
    /\ UNCHANGED <<loading, response, chat>>
    /\ UNCHANGED <<isAutoGenerating, errors, pointer, held, downTarget,
                   pendingClick, gestures, grab>>

EditNames == {"Orders"}

\* NodeEditorModal handleSubmit: onSave(formData); onClose(), where formData
\* is a copy of the node the modal was opened with, its fields edited
SaveEdit(name) ==
    /\ viewMode = "visual"
    /\ vb.editModal.isOpen
    /\ Render(closeEdit(handleSaveNode(St,
                [vb.editModal.node EXCEPT !.name = name])), viewMode)
    /\ last' = Event("saveEdit", "modal")
    /\ UNCHANGED <<loading, response, chat>>
    /\ UNCHANGED <<isAutoGenerating, errors, pointer, held, downTarget,
                   pendingClick, gestures, grab>>

\* the Form / Visual toggle: the builder is unmounted in form view and
\* mounted afresh in visual view
SetViewMode(mode) ==
    /\ mode # viewMode
    /\ Render([St EXCEPT !.vb = initialBuilder], mode)
    /\ held' = {}
    /\ downTarget' = NoTarget
    /\ grab' = NoGrab
    /\ last' = Event("setViewMode", mode)
    /\ UNCHANGED <<loading, response, chat>>
    /\ UNCHANGED <<isAutoGenerating, errors, pointer, pendingClick, gestures>>

FormEdit(fs, u, op) ==
    /\ viewMode = "form"
    /\ u <= MaxUuid
    /\ formState' = fs
    /\ uuid' = u
    /\ last' = op
    /\ UNCHANGED <<loading, response, chat>>
    /\ UNCHANGED <<isAutoGenerating, errors, viewMode, vb, pointer, held,
                   downTarget, pendingClick, gestures, grab>>

ListAdd(kind) ==
    FormEdit(handleInputChange(formState, kind,
                listAddNode(Coll(formState, kind), uuid)),
             uuid + 1, Event("listAdd", kind))

ListRemove(kind, i) ==
    /\ i \in 1..Len(Coll(formState, kind))
    /\ FormEdit(handleInputChange(formState, kind,
                    listRemoveNode(Coll(formState, kind),
                                   Coll(formState, kind)[i].id)),
                uuid,
                Event("listRemove", kind))

ListUpdate(kind, i, value) ==
    /\ i \in 1..Len(Coll(formState, kind))
    /\ FormEdit(handleInputChange(formState, kind,
                    listUpdateNode(Coll(formState, kind),
                                   Coll(formState, kind)[i].id, value)),
                uuid,
                Event("listUpdate", kind))

TechInputs ==
    {<<>>, <<" ">>, <<"E", "T", "L">>,
     <<"D", "a", "i", "l", "y", " ", "s", "y", "n", "c">>}

\* the Technical Requirements textarea
SetTechRequirements(text) ==
    /\ text # formState.techRequirements
    /\ formState' = [formState EXCEPT !.techRequirements = text]
    /\ last' = Event("setTechRequirements", "app")
    /\ UNCHANGED <<loading, response, chat>>
    /\ UNCHANGED <<isAutoGenerating, errors, viewMode, vb, uuid, pointer,
                   held, downTarget, pendingClick, gestures, grab>>

\* handleAutoPipeline up to its await; the button is disabled while a
\* request is in flight or the requirements are empty
AutoStart ==
    /\ ~isAutoGenerating
    /\ formState.techRequirements # <<>>
    /\ IF Trim(formState.techRequirements) = <<>>
       THEN /\ errors' = Append(errors,
                            "Please enter Technical Requirements first.")
            /\ UNCHANGED isAutoGenerating
       ELSE IF Len(formState.techRequirements) < 10
       THEN /\ errors' = Append(errors,
                            "Please provide more descriptive technical requirements")
            /\ UNCHANGED isAutoGenerating
       ELSE /\ isAutoGenerating' = TRUE
            /\ errors' = <<>>
    /\ Len(errors') <= MaxErrors
    /\ last' = Event("autoStart", "app")
    /\ UNCHANGED <<loading, response, chat>>
    /\ UNCHANGED <<formState, viewMode, vb, uuid, pointer, held, downTarget,
                   pendingClick, gestures, grab>>

\* responses of the generation service, as parsed by JSON.parse
RawNode(id) == [id |-> id, name |-> "n"]
RawConnection(s, t) == [sourceId |-> s, targetId |-> t]

RawResult(sources, transformations, targets, connections) ==
    [dataSources |-> sources, transformationNodes |-> transformations,
     dataTargets |-> targets, connections |-> connections]

AutoResults ==
    {RawResult(<<RawNode("a")>>, <<RawNode("")>>, <<RawNode("b")>>,
               <<RawConnection("a", "b")>>),
     RawResult(<<RawNode("a")>>, <<>>, <<RawNode("b")>>,
               <<RawConnection("a", "b")>>),
     RawResult(<<RawNode("a")>>, <<>>, <<RawNode("b")>>,
               <<RawConnection("a", "a")>>),
     RawResult(<<RawNode("a")>>, <<>>, <<RawNode("b")>>,
               <<RawConnection("a", "b"), RawConnection("a", "b")>>),
     RawResult(<<RawNode("a")>>, <<>>, <<>>, <<RawConnection("a", "b")>>),
     RawResult(<<RawNode("a")>>, <<>>, <<RawNode("a")>>, <<>>),
     RawResult(<<RawNode("a"), RawNode("a")>>, <<>>, <<RawNode("b")>>,
               <<RawConnection("a", "b")>>),
     RawResult(<<>>, <<>>, <<>>, <<>>)}

\* handleAutoPipeline after the await, when generatePipelineLayout resolved
AutoSucceed(result) ==
    /\ isAutoGenerating
    /\ Quiet
    /\ Render(autoPipelineLayout(St, result), "visual")
    /\ isAutoGenerating' = FALSE
    /\ last' = Event("autoSucceed", "app")
    /\ UNCHANGED <<loading, response, chat>>
    /\ UNCHANGED <<errors, pointer, held, downTarget, pendingClick, gestures,
                   grab>>

\* handleAutoPipeline after the await, when generatePipelineLayout threw
AutoFail ==
    /\ isAutoGenerating
    /\ Quiet
    /\ errors' = Append(errors, "Auto-generation failed")
    /\ Len(errors') <= MaxErrors
    /\ isAutoGenerating' = FALSE
    /\ last' = Event("autoFail", "app")
    /\ UNCHANGED <<loading, response, chat>>
    /\ UNCHANGED <<formState, viewMode, vb, uuid, pointer, held, downTarget,
                   pendingClick, gestures, grab>>

removeError(errs, index) ==
    SubSeq(errs, 1, index - 1) \o SubSeq(errs, index + 1, Len(errs))

RemoveError(index) ==
    /\ index \in 1..Len(errors)
    /\ errors' = removeError(errors, index)
    /\ last' = Event("removeError", "app")
    /\ UNCHANGED <<loading, response, chat>>
    /\ UNCHANGED <<formState, isAutoGenerating, viewMode, vb, uuid, pointer,
                   held, downTarget, pendingClick, gestures, grab>>

FillExample ==
    /\ Render([St EXCEPT !.fs = exampleState], viewMode)
    /\ errors' = <<>>
    /\ last' = Event("fillExample", "app")
    /\ UNCHANGED <<loading, response, chat>>
    /\ UNCHANGED <<isAutoGenerating, pointer, held, downTarget, pendingClick,
                   gestures, grab>>

-----------------------------------------------------------------------------
(* ChatModal and geminiService.getChatStream: the follow-up chat; a text is *)
(* a sequence of characters                                                *)

ChatMessage(role, text) == [role |-> role, text |-> text]

\* messages, input, isLoading: the useState hooks; streams: the async
\* iterations of handleSend that have not returned; done: history, the
\* sends that have returned
initialChat ==
    [messages |-> <<>>, input |-> <<>>, isLoading |-> FALSE,
     streams |-> <<>>, done |-> <<>>]

\* what the service does with one send: the texts of the chunks it would
\* deliver, and after how many of them the iteration throws (NoThrow: never;
\* 0: the API key is missing or sendMessageStream rejects)
NoThrow == -1
Upstream(chunks, throwsAfter) == [chunks |-> chunks, throwsAfter |-> throwsAfter]

ChatChunks == <<<<"a">>, <<>>, <<"b", "c">>>>

ChatUpstreams ==
    {Upstream(<<>>, NoThrow), Upstream(ChatChunks, NoThrow),
     Upstream(ChatChunks, 0), Upstream(ChatChunks, 2)}

\* the chunks delivered before the stream ends or throws
Delivered(upstream) ==
    IF upstream.throwsAfter = NoThrow THEN upstream.chunks
    ELSE SubSeq(upstream.chunks, 1, upstream.throwsAfter)

\* a handleSend without its guard
handleSendUnguarded(c, upstream) ==
    [c EXCEPT
        !.messages = @ \o <<ChatMessage("user", c.input),
                            ChatMessage("model", <<>>)>>,
        !.input = <<>>,
        !.isLoading = TRUE,
        !.streams = Append(@, [upstream |-> upstream, pos |-> 0,
                               fullResponse |-> <<>>,
                               at |-> Len(c.messages) + 2])]

\* handleSend up to the first await of its for-await loop
handleSend(c, upstream) ==
    IF Trim(c.input) = <<>> \/ c.isLoading THEN c
    ELSE [c EXCEPT
            !.messages = @ \o <<ChatMessage("user", c.input),
                                ChatMessage("model", <<>>)>>,
            !.input = <<>>,
            !.isLoading = TRUE,
            !.streams = Append(@, [upstream |-> upstream, pos |-> 0,
                                   fullResponse |-> <<>>,
                                   at |-> Len(c.messages) + 2])]

\* the updater of the loop body: the last message, when it is the model's,
\* gets the text
setLastText(messages, text) ==
    IF messages # <<>> /\ messages[Len(messages)].role = "model"
    THEN [messages EXCEPT ![Len(messages)].text = text]
    ELSE messages

\* a loop body that shows the latest chunk in place of the whole response
handleSendChunkLatest(c, i) ==
    LET stream == c.streams[i]
        chunk == stream.upstream.chunks[stream.pos + 1]
    IN  IF chunk = <<>>
        THEN [c EXCEPT !.streams[i].pos = @ + 1]
        ELSE [c EXCEPT !.streams[i].pos = @ + 1,
                       !.streams[i].fullResponse = @ \o chunk,
                       !.messages = setLastText(@, chunk)]

\* one chunk of the service's stream: getChatStream yields its text unless
\* it is empty, and the loop body of handleSend takes it
handleSendChunk(c, i) ==
    LET stream == c.streams[i]
        chunk == stream.upstream.chunks[stream.pos + 1]
    IN  IF chunk = <<>>
        THEN [c EXCEPT !.streams[i].pos = @ + 1]
        ELSE [c EXCEPT !.streams[i].pos = @ + 1,
                       !.streams[i].fullResponse = @ \o chunk,
                       !.messages = setLastText(@, stream.fullResponse \o chunk)]

Without(streams, i) ==
    SubSeq(streams, 1, i - 1) \o SubSeq(streams, i + 1, Len(streams))

\* the loop of handleSend ends: catch when the stream threw, then finally
handleSendEnd(c, i) ==
    LET stream == c.streams[i]
        threw == stream.upstream.throwsAfter = stream.pos
    IN  [c EXCEPT
            !.messages =
                IF threw
                THEN Append(@, ChatMessage("model", <<"S", "o", "r", "r", "y">>))
                ELSE @,
            !.isLoading = FALSE,
            !.streams = Without(@, i),
            !.done = Append(@, [at |-> stream.at, upstream |-> stream.upstream,
                                threw |-> threw])]

\* what is typed into the chat input
ChatInputs == {<<>>, <<" ">>, <<"h", "i">>}

\* sends that start a stream in one session
MaxSends == 2

\* the chat input, disabled while a stream is read
ChatInput(text) ==
    /\ ~chat.isLoading
    /\ text # chat.input
    /\ chat' = [chat EXCEPT !.input = text]
    /\ last' = [op |-> "setInput", el |-> "chat", wiring |-> FALSE]
    /\ UNCHANGED <<formState, isAutoGenerating, errors, loading, response,
                   viewMode, vb, uuid, pointer, held, downTarget, pendingClick,
                   gestures, grab>>

\* Enter in the input or a click on the send button
ChatSend(upstream) ==
    /\ Len(chat.done) + Len(chat.streams) < MaxSends
    /\ chat' = handleSend(chat, upstream)
    /\ last' = [op |-> "handleSend", el |-> "chat", wiring |-> FALSE]
    /\ UNCHANGED <<formState, isAutoGenerating, errors, loading, response,
                   viewMode, vb, uuid, pointer, held, downTarget, pendingClick,
                   gestures, grab>>

\* the service delivers the next chunk of a stream
ChatChunk(i) ==
    /\ i \in 1..Len(chat.streams)
    /\ chat.streams[i].pos < Len(chat.streams[i].upstream.chunks)
    /\ chat.streams[i].pos # chat.streams[i].upstream.throwsAfter
    /\ chat' = handleSendChunk(chat, i)
    /\ last' = [op |-> "chunk", el |-> "chat", wiring |-> FALSE]
    /\ UNCHANGED <<formState, isAutoGenerating, errors, loading, response,
                   viewMode, vb, uuid, pointer, held, downTarget, pendingClick,
                   gestures, grab>>

\* a stream closes or throws
ChatEnd(i) ==
    /\ i \in 1..Len(chat.streams)
    /\ \/ chat.streams[i].pos = Len(chat.streams[i].upstream.chunks)
       \/ chat.streams[i].pos = chat.streams[i].upstream.throwsAfter
    /\ chat' = handleSendEnd(chat, i)
    /\ last' = [op |-> "streamEnd", el |-> "chat", wiring |-> FALSE]
    /\ UNCHANGED <<formState, isAutoGenerating, errors, loading, response,
                   viewMode, vb, uuid, pointer, held, downTarget, pendingClick,
                   gestures, grab>>

-----------------------------------------------------------------------------
(* App and geminiService: the request for the design document              *)

\* what ai.models.generateContent does with a request: it rejects with an
\* error whose message is a sequence of words, or resolves with no response
\* object, or with a response whose text may be empty
Rejects(message) ==
    [rejects |-> TRUE, message |-> message, hasResponse |-> FALSE, text |-> ""]
Resolves(hasResponse, text) ==
    [rejects |-> FALSE, message |-> <<>>, hasResponse |-> hasResponse,
     text |-> text]

ServiceOutcomes ==
    {Rejects(<<"401", "UNAUTHENTICATED">>), Rejects(<<"quota", "429">>),
     Rejects(<<"blocked", "by", "SAFETY">>), Rejects(<<"fetch", "failed">>),
     Rejects(<<>>),
     Resolves(FALSE, ""), Resolves(TRUE, ""), Resolves(TRUE, "# Solution")}

\* String.prototype.includes, on a message of words
includes(message, word) == \E i \in 1..Len(message) : message[i] = word

\* the detail after "Generation Failed: " is left out of the message
formatError(error) ==
    LET errorMessage == IF error.message # <<>> THEN error.message
                        ELSE <<"Error">>
    IN  IF includes(errorMessage, "401")
           \/ includes(errorMessage, "UNAUTHENTICATED")
        THEN "Authentication Failed: Invalid API Key."
        ELSE IF includes(errorMessage, "429")
                \/ includes(errorMessage, "RESOURCE_EXHAUSTED")
        THEN "Rate Limit Exceeded: Please wait a moment."
        ELSE IF includes(errorMessage, "SAFETY")
                \/ includes(errorMessage, "blocked")
        THEN "Content Error: Request blocked by safety filters."
        ELSE "Generation Failed"

Threw(message) == [threw |-> TRUE, message |-> message, text |-> ""]
Returned(text) == [threw |-> FALSE, message |-> "", text |-> text]

\* a generateSolution that hands on whatever text the response carries
generateSolutionUnchecked(outcome) ==
    IF outcome.rejects
    THEN Threw(formatError([message |-> outcome.message]))
    ELSE IF ~outcome.hasResponse
    THEN Threw(formatError([message |-> <<"Cannot", "read", "properties">>]))
    ELSE Returned(outcome.text)

\* generateSolution from its await: the try / catch around generateContent
generateSolution(outcome) ==
    IF outcome.rejects
    THEN Threw(formatError([message |-> outcome.message]))
    ELSE IF ~outcome.hasResponse \/ outcome.text = ""
    THEN Threw(formatError([message |->
                <<"The", "AI", "model", "returned", "an", "empty", "response">>]))
    ELSE Returned(outcome.text)

\* the App state that handleSubmit reads and writes
AppSt ==
    [fs |-> formState, errors |-> errors, loading |-> loading,
     response |-> response]

\* the checks at the head of handleSubmit
submitErrors(fs) ==
    (IF Trim(fs.techRequirements) = <<>>
     THEN <<"Technical Requirements are mandatory.">> ELSE <<>>)
    \o (IF Len(fs.dataSources) = 0
        THEN <<"At least one Data Source is required.">> ELSE <<>>)
    \o (IF Len(fs.dataTargets) = 0
        THEN <<"At least one Data Target is required.">> ELSE <<>>)

\* handleSubmit up to its await
handleSubmit(app) ==
    LET newErrors == submitErrors(app.fs)
    IN  IF Len(newErrors) > 0
        THEN [app EXCEPT !.errors = newErrors]
        ELSE [app EXCEPT !.loading = TRUE, !.errors = <<>>,
                         !.response = NoResponse]

\* a handleSubmit without its finally: loading is reset on success only
handleSubmitSettledNoFinally(app, outcome) ==
    LET result == generateSolution(outcome)
    IN  IF result.threw
        THEN [app EXCEPT !.errors = <<IF result.message # "" THEN result.message
                                      ELSE "Something went wrong">>]
        ELSE [app EXCEPT !.response = <<result.text>>, !.loading = FALSE]

\* handleSubmit after its await: try / catch / finally
handleSubmitSettled(app, outcome) ==
    LET result == generateSolution(outcome)
    IN  IF result.threw
        THEN [app EXCEPT !.errors = <<IF result.message # "" THEN result.message
                                      ELSE "Something went wrong">>,
                         !.loading = FALSE]
        ELSE [app EXCEPT !.response = <<result.text>>, !.loading = FALSE]

\* the Generate button, disabled while a request is in flight
Submit ==
    /\ ~loading
    /\ LET app == handleSubmit(AppSt)
       IN  /\ errors' = app.errors
           /\ loading' = app.loading
           /\ response' = app.response
    /\ last' = [op |-> "handleSubmit", el |-> "app", wiring |-> FALSE]
    /\ UNCHANGED <<formState, isAutoGenerating, chat, viewMode, vb, uuid,
                   pointer, held, downTarget, pendingClick, gestures, grab>>

\* the request settles
SubmitSettled(outcome) ==
    /\ loading
    /\ LET app == handleSubmitSettled(AppSt, outcome)
       IN  /\ errors' = app.errors
           /\ loading' = app.loading
           /\ response' = app.response
    /\ last' = [op |-> "handleSubmitSettled",
                el |-> IF generateSolution(outcome).threw THEN "catch" ELSE "try",
                wiring |-> FALSE]
    /\ UNCHANGED <<formState, isAutoGenerating, chat, viewMode, vb, uuid,
                   pointer, held, downTarget, pendingClick, gestures, grab>>

-----------------------------------------------------------------------------
(* Spec: the App from its start: the form lists, the requirements text,   *)
(* auto-design, the error list and the Form / Visual toggle                *)

\* where the pointer rests at the start
PointerX == 150
PointerY == 90

Init ==
    /\ formState = initialState
    /\ isAutoGenerating = FALSE
    /\ errors = <<>>
    /\ loading = FALSE
    /\ response = NoResponse
    /\ chat = initialChat
    /\ viewMode = "form"
    /\ vb = initialBuilder
    /\ uuid = 0
    /\ pointer = [x |-> PointerX, y |-> PointerY]
    /\ held = {}
    /\ downTarget = NoTarget
    /\ pendingClick = NoTarget
    /\ gestures = 0
    /\ grab = NoGrab
    /\ last = [op |-> "init", el |-> "app", wiring |-> FALSE]

Next ==
    \/ \E mode \in {"form", "visual"} : SetViewMode(mode)
    \/ \E text \in TechInputs : SetTechRequirements(text)
    \/ AutoStart
    \/ \E result \in AutoResults : AutoSucceed(result)
    \/ AutoFail
    \/ \E index \in 1..MaxErrors : RemoveError(index)
    \/ FillExample

Spec == Init /\ [][Next]_vars

-----------------------------------------------------------------------------
(* SpecForm: the form view's node lists and the Form / Visual toggle       *)

\* rows of a form list the user edits
MaxRow == 2

\* the lists whose component is among the sources: SourceNodeList and
\* TransformationNodeList
ListKinds == {"source", "transformation"}

NextForm ==
    \/ \E mode \in {"form", "visual"} : SetViewMode(mode)
    \/ \E kind \in ListKinds : ListAdd(kind)
    \/ \E kind \in ListKinds, i \in 1..MaxRow : ListRemove(kind, i)
    \/ \E kind \in ListKinds, i \in 1..MaxRow, name \in EditNames :
            ListUpdate(kind, i, name)

SpecForm == Init /\ [][NextForm]_vars

-----------------------------------------------------------------------------
(* SpecCanvas: the mounted VisualBuilder over the initial pipeline, an       *)
(* auto-design request in flight, the pointer kept at one point of the     *)
(* canvas                                                                   *)

Requirements == <<"D", "a", "i", "l", "y", " ", "s", "y", "n", "c">>

InitCanvas ==
    /\ formState = [initialState EXCEPT !.techRequirements = Requirements]
    /\ isAutoGenerating = TRUE
    /\ errors = <<>>
    /\ loading = FALSE
    /\ response = NoResponse
    /\ chat = initialChat
    /\ viewMode = "visual"
    /\ vb = initialBuilder
    /\ uuid = 0
    /\ pointer = [x |-> PointerX, y |-> PointerY]
    /\ held = {}
    /\ downTarget = NoTarget
    /\ pendingClick = NoTarget
    /\ gestures = 0
    /\ grab = NoGrab
    /\ last = [op |-> "init", el |-> "app", wiring |-> FALSE]

CanvasResults ==
    {result \in AutoResults :
        /\ result.dataSources = <<RawNode("a")>>
        /\ result.transformationNodes = <<>>
        /\ result.dataTargets = <<RawNode("b")>>
        /\ result.connections = <<RawConnection("a", "b")>>}

NextCanvas ==
    \/ \E tg \in Elements(formState), b \in Buttons :
            MouseDown(tg, b)
    \/ MouseMove(PointerX, PointerY)
    \/ \E tg \in Elements(formState), b \in Buttons : MouseUp(tg, b)
    \/ Click
    \/ MouseLeave
    \/ \E type \in DropTypes : Drop(type, PointerX, PointerY)
    \/ CloseEdit
    \/ \E name \in EditNames : SaveEdit(name)
    \/ \E result \in CanvasResults : AutoSucceed(result)

SpecCanvas == InitCanvas /\ [][NextCanvas]_vars

-----------------------------------------------------------------------------
(* SpecDrag: the mounted VisualBuilder over the initial pipeline, the        *)
(* primary button only, the pointer moving between the points of the canvas *)
(* and the wheel turning                                                    *)

Points == {[x |-> PointerX, y |-> PointerY], [x |-> 760, y |-> 400]}

DeltaYs == {-1000, 500}

DragTargets(fs) ==
    {tg \in Elements(fs) : tg.el \in {"canvas", "body", "input", "output"}}

InitDrag ==
    /\ formState = initialState
    /\ isAutoGenerating = FALSE
    /\ errors = <<>>
    /\ loading = FALSE
    /\ response = NoResponse
    /\ chat = initialChat
    /\ viewMode = "visual"
    /\ vb = initialBuilder
    /\ uuid = 0
    /\ pointer = [x |-> PointerX, y |-> PointerY]
    /\ held = {}
    /\ downTarget = NoTarget
    /\ pendingClick = NoTarget
    /\ gestures = 0
    /\ grab = NoGrab
    /\ last = [op |-> "init", el |-> "app", wiring |-> FALSE]

NextDrag ==
    \/ \E tg \in DragTargets(formState) : MouseDown(tg, 0)
    \/ \E p \in Points : MouseMove(p.x, p.y)
    \/ \E tg \in DragTargets(formState) : MouseUp(tg, 0)
    \/ Click
    \/ MouseLeave
    \/ \E deltaY \in DeltaYs : Wheel(deltaY)
    \/ CloseEdit

SpecDrag == InitDrag /\ [][NextDrag]_vars

-----------------------------------------------------------------------------
(* Properties of the graph store *)

NodesOf(fs) == fs.dataSources \o fs.transformationNodes \o fs.dataTargets

NodeIds(fs) == {NodesOf(fs)[i].id : i \in 1..Len(NodesOf(fs))}

References(c, id) == c.sourceId = id \/ c.targetId = id

HasEdge(fs, a, b) ==
    \E i \in 1..Len(fs.connections) :
        fs.connections[i].sourceId = a /\ fs.connections[i].targetId = b

SameNodes(fs1, fs2) ==
    /\ fs1.dataSources = fs2.dataSources
    /\ fs1.transformationNodes = fs2.transformationNodes
    /\ fs1.dataTargets = fs2.dataTargets

\* C1: in every reachable state both ends of every connection are ids of
\* nodes present in the sources, transformations or targets.
C1_NoOrphanEdge ==
    \A i \in 1..Len(formState.connections) :
        /\ formState.connections[i].sourceId \in NodeIds(formState)
        /\ formState.connections[i].targetId \in NodeIds(formState)

\* C2: the click on a node's remove button (removeSourceNode,
\* removeTransformationNode, removeTargetNode) leaves no node with that id,
\* no connection that references the id, and every other connection in place.
C2_RemoveNodeCascades ==
    [][(/\ pendingClick.el = "trash"
        /\ pendingClick \in Elements(formState)
        /\ Click)
        => /\ pendingClick.id \notin NodeIds(formState')
           /\ formState'.connections =
                SelectSeq(formState.connections,
                          LAMBDA c : ~References(c, pendingClick.id))]_vars

\* a remove button was clicked on a node that had a connection, while another
\* connection did not touch the node
C2_Witness ==
    /\ last.op = "click" /\ last.el = "trash"
    /\ "1" \notin NodeIds(formState)
    /\ Len(formState.connections) = 1
    /\ formState.connections[1].id = "c2"

-----------------------------------------------------------------------------
(* Properties of the interaction modes *)

ActiveModes ==
    {m \in {"pan", "wire", "drag"} :
        \/ m = "pan" /\ vb.isPanning
        \/ m = "wire" /\ vb.connectingSourceId # Null
        \/ m = "drag" /\ vb.draggingId # Null}

\* C3: in every reachable state at most one of panning, wiring and node
\* dragging is active.
C3_AtMostOneMode == Cardinality(ActiveModes) <= 1

\* C4: in the state a mouse-up inside the canvas leaves behind, wherever it
\* landed, no mode is active: draggingId and connectingSourceId are null and
\* isPanning is false.
C4_ReleaseEndsEveryMode == last.op = "mouseup" => ActiveModes = {}

-----------------------------------------------------------------------------
(* Properties of the wire gesture *)

\* the step is a release over the element tg
WireReleasedOn(tg) ==
    /\ last' = Event("mouseup", tg.el)
    /\ UNCHANGED <<loading, response, chat>>
    /\ \E b \in Buttons : MouseUp(tg, b)

\* a step that may be a release while a wire is being drawn
WireRelease == vb.connectingSourceId # Null /\ last'.op = "mouseup"

\* C5: a wire from node A released on the input anchor of another node B,
\* no A-to-B connection existing, appends exactly one connection A-to-B,
\* keeps every other connection and every node, and ends the wiring.
C5_WireAddsOneConnection ==
    [][WireRelease => \A tg \in Elements(formState) :
        (/\ tg.el = "input"
         /\ tg.id # vb.connectingSourceId
         /\ vb.connectingSourceId \in NodeIds(formState)
         /\ ~HasEdge(formState, vb.connectingSourceId, tg.id)
         /\ WireReleasedOn(tg))
        => /\ Len(formState'.connections) = Len(formState.connections) + 1
           /\ SubSeq(formState'.connections, 1, Len(formState.connections))
                = formState.connections
           /\ formState'.connections[Len(formState'.connections)].sourceId
                = vb.connectingSourceId
           /\ formState'.connections[Len(formState'.connections)].targetId
                = tg.id
           /\ SameNodes(formState', formState)
           /\ vb'.connectingSourceId = Null]_vars

\* a wire from source 1 was released on the input anchor of target 10 and
\* the connection 1-to-10 is the newest of the graph
C5_Witness ==
    /\ last.op = "mouseup" /\ last.el = "input" /\ last.wiring
    /\ Len(formState.connections) = 3
    /\ formState.connections[3].sourceId = "1"
    /\ formState.connections[3].targetId = "10"
    /\ vb.connectingSourceId = Null

\* C6: a wire released anywhere but on the input anchor of a node other than
\* its source leaves the three node collections and the connections as they
\* were and ends the wiring.
C6_WireElsewhereChangesNothing ==
    [][WireRelease => \A tg \in Elements(formState) :
        (/\ ~(tg.el = "input" /\ tg.id # vb.connectingSourceId)
         /\ WireReleasedOn(tg))
        => /\ formState' = formState
           /\ vb'.connectingSourceId = Null]_vars

\* a wire was being drawn when a release arrived on something that is not an
\* input anchor, and the pipeline is the initial one
C6_Witness ==
    /\ last.op = "mouseup" /\ last.el \in {"canvas", "body", "output"}
    /\ last.wiring
    /\ formState.connections = initialState.connections
    /\ vb.connectingSourceId = Null

\* C7: no reachable state holds a connection whose sourceId is its targetId.
C7_NoSelfLoop ==
    \A i \in 1..Len(formState.connections) :
        formState.connections[i].sourceId # formState.connections[i].targetId

\* C8: in every reachable state no two connections have the same ordered
\* pair (sourceId, targetId).
C8_OneConnectionPerPair ==
    \A i, j \in 1..Len(formState.connections) :
        (/\ formState.connections[i].sourceId = formState.connections[j].sourceId
         /\ formState.connections[i].targetId = formState.connections[j].targetId)
        => i = j

\* C9: a release that hands addConnection a sourceId or a targetId that is
\* not the id of a node of the graph leaves the graph as it was.
C9_UnknownEndpointIsNoOp ==
    [][WireRelease => \A tg \in Elements(formState) :
        (/\ tg.el = "input"
         /\ \/ vb.connectingSourceId \notin NodeIds(formState)
            \/ tg.id \notin NodeIds(formState)
         /\ WireReleasedOn(tg))
        => formState' = formState]_vars

-----------------------------------------------------------------------------
(* Properties of the node drag *)

\* C10: while a positioned node is dragged, a move that ends with the world
\* cursor at w puts the node at p0 + (w - g) on each axis, raised to the clamp
\* floor, p0 and g being the node's position and the world cursor at the
\* press; the move leaves the grab offset as the press captured it.
C10_DragFollowsCursor ==
    [][\A p \in Points :
        (/\ MouseMove(p.x, p.y)
         /\ vb.draggingId # Null
         /\ grab.id = vb.draggingId
         /\ grab.p0.defined
         /\ vb.draggingId \in NodeIds(formState))
        => LET w == screenToWorld(vb', p.x, p.y)
           IN  /\ findNode(formState', vb.draggingId).position =
                    NodePosition(
                        RMax(Num(DragFloor),
                             RAdd(grab.p0.x, RSub(w.x, grab.g.x))),
                        RMax(Num(DragFloor),
                             RAdd(grab.p0.y, RSub(w.y, grab.g.y))))
               /\ vb'.dragOffset = vb.dragOffset]_vars

-----------------------------------------------------------------------------
(* The older VisualBuilder (components/VisualBuilder.tsx): sources and       *)
(* targets only, no viewport; positions are canvas pixels                   *)

\* the size of the canvas, getBoundingClientRect().width / .height
RectWidth == 800
RectHeight == 600

legacyInitialState ==
    [techRequirements |-> <<>>,
     productRequirements |-> <<>>,
     existingTools |-> <<"BigQuery", "S3">>,
     dataSources |-> <<Node("1", "MySQL", NodePosition(Num(50), Num(50)))>>,
     transformationNodes |-> <<>>,
     dataTargets |-> <<Node("10", "Redshift", NodePosition(Num(450), Num(50)))>>,
     connections |-> <<Connection("c1", "1", "10")>>]

\* no button test; the offset is taken in client coordinates
legacyStartNodeDrag(st, e, id, currentPos) ==
    IF st.vb.connectingSourceId # Null THEN st
    ELSE LET s1 == [st EXCEPT !.vb.draggingId = id,
                              !.vb.hasMovedRef = FALSE]
         IN  IF currentPos.defined
             THEN [s1 EXCEPT !.vb.dragOffset =
                        [x |-> RSub(Num(e.clientX), currentPos.x),
                         y |-> RSub(Num(e.clientY), currentPos.y)]]
             ELSE s1

legacyStartWiring(st, e, id) ==
    [st EXCEPT !.vb.connectingSourceId = id,
               !.vb.mousePos = NodePosition(Num(e.clientX - RectLeft),
                                            Num(e.clientY - RectTop))]

\* Math.max(0, Math.min(newX, rect.width - 200)) and the same with
\* rect.height - 80
legacyClamp(new, size, extent) == RMax(Num(0), RMin(new, Num(size - extent)))

legacyOnMouseMove(st, e) ==
    IF st.vb.connectingSourceId # Null
    THEN [st EXCEPT !.vb.mousePos = NodePosition(Num(e.clientX - RectLeft),
                                                 Num(e.clientY - RectTop))]
    ELSE IF st.vb.draggingId # Null
    THEN LET s1 == [st EXCEPT !.vb.hasMovedRef = TRUE]
             newX == RSub(Num(e.clientX), st.vb.dragOffset.x)
             newY == RSub(Num(e.clientY), st.vb.dragOffset.y)
             position == NodePosition(legacyClamp(newX, RectWidth, 200),
                                      legacyClamp(newY, RectHeight, 80))
             id == st.vb.draggingId
         IN  IF \E i \in 1..Len(st.fs.dataSources) :
                    st.fs.dataSources[i].id = id
             THEN updateSourceNode(s1, id, [position |-> position])
             ELSE IF \E i \in 1..Len(st.fs.dataTargets) :
                        st.fs.dataTargets[i].id = id
             THEN updateTargetNode(s1, id, [position |-> position])
             ELSE s1
    ELSE st

legacyOnMouseUp(st) ==
    [st EXCEPT !.vb.draggingId = Null,
               !.vb.connectingSourceId = Null,
               !.vb.mousePos = NoPos]

legacyOpenEdit(st, node, type) ==
    IF st.vb.hasMovedRef \/ st.vb.connectingSourceId # Null
    THEN [st EXCEPT !.vb.hasMovedRef = FALSE]
    ELSE [st EXCEPT !.vb.editModal =
                        [isOpen |-> TRUE, node |-> node, type |-> type]]

\* every connection has its 15px click path; there is no X button
LegacyElements(fs) == {tg \in Elements(fs) : tg.el # "delete"}

\* mousedown: output handle -> startWiring (stops); node div -> startNodeDrag;
\* the canvas has no onMouseDown
legacyMouseDown(st, tg, e) ==
    CASE tg.el = "output" -> legacyStartWiring(st, e, tg.id)
      [] tg.el \in {"body", "trash", "input"} ->
            legacyStartNodeDrag(st, e, tg.id, NodeOf(st.fs, tg).position)
      [] OTHER -> st

legacyMouseUp(st, tg) ==
    IF tg.el = "input" THEN endWiring(st, tg.id) ELSE legacyOnMouseUp(st)

legacyClick(st, tg) ==
    CASE tg.el = "trash" -> onRemove(st, tg.kind, tg.id)
      [] tg.el = "hit" -> removeConnection(st, tg.id)
      [] tg.el \in {"body", "input", "output"} ->
            legacyOpenEdit(st, NodeOf(st.fs, tg), tg.kind)
      [] OTHER -> st

\* React commits the handlers' updates; every node of the older builder's
\* lists has a position, so its default-position effect finds nothing to do
LegacyCommit(st) ==
    /\ st.uuid <= MaxUuid
    /\ formState' = st.fs
    /\ vb' = st.vb
    /\ uuid' = st.uuid
    /\ viewMode' = viewMode

LegacyMouseDown(tg, button) ==
    LET e == MouseEvent(button, pointer.x, pointer.y)
    IN  /\ CanvasLive
        /\ button \notin held
        /\ Cardinality(held) < MaxHeld
        /\ gestures < MaxGestures
        /\ LegacyCommit(legacyMouseDown(St, tg, e))
        /\ held' = held \cup {button}
        /\ downTarget' = IF button = 0 THEN tg ELSE downTarget
        /\ gestures' = gestures + 1
        /\ grab' = IF tg.el \in {"body", "trash", "input"}
                      /\ vb.connectingSourceId = Null
                   THEN [id |-> tg.id, kind |-> tg.kind,
                         p0 |-> NodeOf(formState, tg).position,
                         g |-> NodePosition(Num(pointer.x), Num(pointer.y)),
                         idle |-> AllIdle(vb)]
                   ELSE grab
        /\ last' = Event("mousedown", tg.el)
        /\ UNCHANGED <<loading, response, chat>>
        /\ UNCHANGED <<isAutoGenerating, errors, pointer, pendingClick>>

LegacyMouseMove(cx, cy) ==
    /\ CanvasLive
    /\ LegacyCommit(legacyOnMouseMove(St, MouseEvent(0, cx, cy)))
    /\ pointer' = [x |-> cx, y |-> cy]
    /\ last' = Event("mousemove", "canvas")
    /\ UNCHANGED <<loading, response, chat>>
    /\ UNCHANGED <<isAutoGenerating, errors, held, downTarget, pendingClick,
                   gestures, grab>>

LegacyMouseUp(tg, button) ==
    /\ CanvasLive
    /\ LegacyCommit(legacyMouseUp(St, tg))
    /\ held' = held \ {button}
    /\ downTarget' = IF button = 0 THEN NoTarget ELSE downTarget
    /\ pendingClick' = IF button = 0 /\ downTarget \in LegacyElements(formState)
                       THEN clickTarget(downTarget, tg)
                       ELSE NoTarget
    /\ grab' = IF vb'.draggingId = Null THEN NoGrab ELSE grab
    /\ last' = Event("mouseup", tg.el)
    /\ UNCHANGED <<loading, response, chat>>
    /\ UNCHANGED <<isAutoGenerating, errors, pointer, gestures>>

LegacyClick ==
    /\ pendingClick # NoTarget
    /\ LegacyCommit(IF pendingClick \in LegacyElements(formState)
                    THEN legacyClick(St, pendingClick) ELSE St)
    /\ pendingClick' = NoTarget
    /\ last' = Event("click", pendingClick.el)
    /\ UNCHANGED <<loading, response, chat>>
    /\ UNCHANGED <<isAutoGenerating, errors, pointer, held, downTarget,
                   gestures, grab>>

LegacyMouseLeave ==
    /\ viewMode = "visual"
    /\ Quiet
    /\ LegacyCommit(legacyOnMouseUp(St))
    /\ held' = {}
    /\ downTarget' = NoTarget
    /\ grab' = NoGrab
    /\ last' = Event("mouseleave", "canvas")
    /\ UNCHANGED <<loading, response, chat>>
    /\ UNCHANGED <<isAutoGenerating, errors, pointer, pendingClick, gestures>>

LegacyCloseEdit ==
    /\ viewMode = "visual"
    /\ vb.editModal.isOpen
    /\ LegacyCommit(closeEdit(St))
    /\ last' = Event("closeEdit", "modal")
    /\ UNCHANGED <<loading, response, chat>>
    /\ UNCHANGED <<isAutoGenerating, errors, pointer, held, downTarget,
                   pendingClick, gestures, grab>>

-----------------------------------------------------------------------------
(* SpecLegacy: the older VisualBuilder mounted over the older App's initial *)
(* pipeline, the pointer moving between the points of the canvas            *)

InitLegacy ==
    /\ formState = legacyInitialState
    /\ isAutoGenerating = FALSE
    /\ errors = <<>>
    /\ loading = FALSE
    /\ response = NoResponse
    /\ chat = initialChat
    /\ viewMode = "visual"
    /\ vb = initialBuilder
    /\ uuid = 0
    /\ pointer = [x |-> PointerX, y |-> PointerY]
    /\ held = {}
    /\ downTarget = NoTarget
    /\ pendingClick = NoTarget
    /\ gestures = 0
    /\ grab = NoGrab
    /\ last = [op |-> "init", el |-> "app", wiring |-> FALSE]

NextLegacy ==
    \/ \E tg \in LegacyElements(formState), b \in Buttons :
            LegacyMouseDown(tg, b)
    \/ \E p \in Points : LegacyMouseMove(p.x, p.y)
    \/ \E tg \in LegacyElements(formState), b \in Buttons :
            LegacyMouseUp(tg, b)
    \/ LegacyClick
    \/ LegacyMouseLeave
    \/ LegacyCloseEdit

SpecLegacy == InitLegacy /\ [][NextLegacy]_vars

-----------------------------------------------------------------------------
(* VisualBuilder: the zoom controls of the toolbar *)

\* a reset of the zoom that leaves the offset where it is
resetZoomOnly(st) == [st EXCEPT !.vb.viewport.zoom = Num(1)]

resetView(st) ==
    [st EXCEPT !.vb.viewport = [x |-> Num(0), y |-> Num(0), zoom |-> Num(1)]]

\* the viewport with the zoom set to newZoom and the world point under the
\* centre of the canvas kept there
zoomAtCenter(st, newZoom) ==
    LET viewport == st.vb.viewport
        centerX == Rat(RectWidth, 2)
        centerY == Rat(RectHeight, 2)
        worldX == RDiv(RSub(centerX, viewport.x), viewport.zoom)
        worldY == RDiv(RSub(centerY, viewport.y), viewport.zoom)
        newX == RSub(centerX, RMul(worldX, newZoom))
        newY == RSub(centerY, RMul(worldY, newZoom))
    IN  [st EXCEPT !.vb.viewport = [x |-> newX, y |-> newY, zoom |-> newZoom]]

\* a zoom step that leaves the offset as it was
handleZoomInKeepingOffset(st) ==
    [st EXCEPT !.vb.viewport.zoom =
                   RMin(Num(5), RMul(st.vb.viewport.zoom, Rat(6, 5)))]

\* Math.min(5, viewport.zoom * 1.2)
handleZoomIn(st) ==
    zoomAtCenter(st, RMin(Num(5), RMul(st.vb.viewport.zoom, Rat(6, 5))))

\* a zoom-out step anchored at the corner of the canvas, not at its centre
handleZoomOutAtCorner(st) ==
    LET viewport == st.vb.viewport
        newZoom == RMax(Rat(1, 10), RDiv(viewport.zoom, Rat(6, 5)))
        scale == RDiv(newZoom, viewport.zoom)
    IN  [st EXCEPT !.vb.viewport = [x |-> RMul(viewport.x, scale),
                                    y |-> RMul(viewport.y, scale),
                                    zoom |-> newZoom]]

\* Math.max(0.1, viewport.zoom / 1.2)
handleZoomOut(st) ==
    zoomAtCenter(st, RMax(Rat(1, 10), RDiv(st.vb.viewport.zoom, Rat(6, 5))))

\* the toolbar lies outside the canvas; its buttons are also reached with the
\* keyboard
ToolbarLive == viewMode = "visual" /\ Quiet

ZoomIn ==
    /\ ToolbarLive
    /\ gestures < MaxGestures
    /\ Render(handleZoomIn(St), viewMode)
    /\ gestures' = gestures + 1
    /\ last' = Event("zoomIn", "toolbar")
    /\ UNCHANGED <<loading, response, chat>>
    /\ UNCHANGED <<isAutoGenerating, errors, pointer, held, downTarget,
                   pendingClick, grab>>

ZoomOut ==
    /\ ToolbarLive
    /\ gestures < MaxGestures
    /\ Render(handleZoomOut(St), viewMode)
    /\ gestures' = gestures + 1
    /\ last' = Event("zoomOut", "toolbar")
    /\ UNCHANGED <<loading, response, chat>>
    /\ UNCHANGED <<isAutoGenerating, errors, pointer, held, downTarget,
                   pendingClick, grab>>

ResetView ==
    /\ ToolbarLive
    /\ Render(resetView(St), viewMode)
    /\ last' = Event("resetView", "toolbar")
    /\ UNCHANGED <<loading, response, chat>>
    /\ UNCHANGED <<isAutoGenerating, errors, pointer, held, downTarget,
                   pendingClick, gestures, grab>>

-----------------------------------------------------------------------------
(* SpecView: the viewport of the mounted VisualBuilder: the wheel, the zoom *)
(* buttons, the reset and pans on the background                           *)

\* wheel turns: zoom in by 2 and by 5, out by 1/2, and turns that make the
\* factor 1 + delta zero and negative
ViewDeltaYs == {-4000, -1000, 500, 1000, 2000}

NextView ==
    \/ MouseDown(Canvas, 0)
    \/ \E p \in Points : MouseMove(p.x, p.y)
    \/ MouseUp(Canvas, 0)
    \/ MouseLeave
    \/ \E deltaY \in ViewDeltaYs : Wheel(deltaY)
    \/ ZoomIn
    \/ ZoomOut
    \/ ResetView

SpecView == InitDrag /\ [][NextView]_vars

-----------------------------------------------------------------------------
(* SpecPalette: palette drops at the points of the canvas of a builder whose *)
(* viewport the wheel, the zoom buttons and pans on the background change    *)

NextPalette ==
    \/ \E type \in DropTypes, p \in Points : Drop(type, p.x, p.y)
    \/ \E deltaY \in DeltaYs : Wheel(deltaY)
    \/ ZoomIn
    \/ ZoomOut
    \/ MouseDown(Canvas, 0)
    \/ \E p \in Points : MouseMove(p.x, p.y)
    \/ MouseUp(Canvas, 0)
    \/ MouseLeave

SpecPalette == InitDrag /\ [][NextPalette]_vars

-----------------------------------------------------------------------------
(* SpecGraph: the mounted VisualBuilder edited with the primary button while *)
(* an auto-design request is in flight, whatever the service answers         *)

\* answers of the service: a well-formed pipeline, one id used by a source
\* and by a target, one id used by two sources
GraphResults ==
    {RawResult(<<RawNode("a")>>, <<>>, <<RawNode("b")>>,
               <<RawConnection("a", "b")>>),
     RawResult(<<RawNode("a")>>, <<>>, <<RawNode("a")>>, <<>>),
     RawResult(<<RawNode("a"), RawNode("a")>>, <<>>, <<RawNode("b")>>,
               <<RawConnection("a", "b")>>)}

\* where the button goes down and up: the background, the bodies and the
\* handles of the nodes, the click paths of the connections
GraphTargets(fs) ==
    {tg \in Elements(fs) :
        tg.el \in {"canvas", "body", "input", "output", "hit"}}

NextGraph ==
    \/ \E tg \in GraphTargets(formState) : MouseDown(tg, 0)
    \/ \E p \in Points : MouseMove(p.x, p.y)
    \/ \E tg \in GraphTargets(formState) : MouseUp(tg, 0)
    \/ Click
    \/ MouseLeave
    \/ \E type \in Kinds : Drop(type, PointerX, PointerY)
    \/ CloseEdit
    \/ \E name \in EditNames : SaveEdit(name)
    \/ \E result \in GraphResults : AutoSucceed(result)

SpecGraph == InitCanvas /\ [][NextGraph]_vars

-----------------------------------------------------------------------------
(* SpecSubmit: the App from its start with both generation requests: the   *)
(* design document and the auto-design of the pipeline                     *)

SubmitResults ==
    {RawResult(<<RawNode("a")>>, <<>>, <<RawNode("b")>>,
               <<RawConnection("a", "b")>>),
     RawResult(<<>>, <<>>, <<>>, <<>>)}

NextSubmit ==
    \/ \E text \in TechInputs : SetTechRequirements(text)
    \/ Submit
    \/ \E outcome \in ServiceOutcomes : SubmitSettled(outcome)
    \/ AutoStart
    \/ \E result \in SubmitResults : AutoSucceed(result)
    \/ AutoFail
    \/ \E index \in 1..MaxErrors : RemoveError(index)

SpecSubmit == Init /\ [][NextSubmit]_vars

-----------------------------------------------------------------------------
(* SpecAdd: the add handlers of the App called with and without a          *)
(* position, and the remove buttons of the nodes                           *)

AddTargets(fs) == {tg \in Elements(fs) : tg.el = "trash"}

NextAdd ==
    \/ \E kind \in Kinds, position \in AddPositions : AddNode(kind, position)
    \/ \E tg \in AddTargets(formState) : MouseDown(tg, 0)
    \/ \E tg \in AddTargets(formState) : MouseUp(tg, 0)
    \/ Click

SpecAdd == InitDrag /\ [][NextAdd]_vars

-----------------------------------------------------------------------------
(* SpecChat: the follow-up chat of the App from its start                  *)

NextChat ==
    \/ \E text \in ChatInputs : ChatInput(text)
    \/ \E upstream \in ChatUpstreams : ChatSend(upstream)
    \/ \E i \in 1..MaxSends : ChatChunk(i)
    \/ \E i \in 1..MaxSends : ChatEnd(i)

SpecChat == Init /\ [][NextChat]_vars

-----------------------------------------------------------------------------
(* Properties of the drag clamp *)

\* C11: in the older builder too, a move of a drag (no wire being drawn)
\* whose target, the cursor minus the grab offset, is at or above the floor 0
\* on both axes puts the dragged node exactly at that target.
C11_DragClampsOnlyBelow ==
    [][\A p \in Points :
        (/\ vb.draggingId \in NodeIds(formState)
         /\ vb.connectingSourceId = Null
         /\ LegacyMouseMove(p.x, p.y))
        => LET newX == RSub(Num(p.x), vb.dragOffset.x)
               newY == RSub(Num(p.y), vb.dragOffset.y)
           IN  (~RLess(newX, Num(0)) /\ ~RLess(newY, Num(0)))
                => findNode(formState', vb.draggingId).position =
                        NodePosition(newX, newY)]_vars

-----------------------------------------------------------------------------
(* Properties of the viewport *)

MinZoom == Rat(1, 10)
MaxZoom == Num(5)

InZoomRange(zoom) == ~RLess(zoom, MinZoom) /\ ~RLess(MaxZoom, zoom)

\* C12: in every reachable state of the builder the zoom lies in [0.1, 5],
\* whatever the wheel turns (also those with a zero or negative factor), zoom
\* steps, pans and resets that led there.
C12_ZoomWithinBounds == InZoomRange(vb.viewport.zoom)

\* a wheel turn whose factor is not positive has left the zoom at the floor
C12_Witness ==
    /\ last.op = "wheel"
    /\ vb.viewport.zoom = MinZoom
    /\ gestures = 1

\* the world point drawn at the canvas point (ax, ay) under a viewport
WorldUnder(viewport, ax, ay) ==
    [x |-> RDiv(RSub(ax, viewport.x), viewport.zoom),
     y |-> RDiv(RSub(ay, viewport.y), viewport.zoom)]

ZoomOps == {"wheel", "zoomIn", "zoomOut"}

\* C13: a zoom step, by the wheel (anchor: the cursor) or by a zoom button
\* (anchor: the centre of the canvas), leaves the world point under its anchor
\* where it was, also when the new zoom was clamped at 0.1 or at 5.
C13_ZoomKeepsAnchor ==
    [][last'.op \in ZoomOps
        => LET ax == IF last'.op = "wheel" THEN Num(pointer.x - RectLeft)
                                           ELSE Rat(RectWidth, 2)
               ay == IF last'.op = "wheel" THEN Num(pointer.y - RectTop)
                                           ELSE Rat(RectHeight, 2)
           IN  WorldUnder(vb'.viewport, ax, ay)
                   = WorldUnder(vb.viewport, ax, ay)]_vars

\* a zoom-in step from a moved viewport that the ceiling clamped
C13_Witness ==
    /\ last.op = "zoomIn"
    /\ vb.viewport.zoom = MaxZoom
    /\ vb.viewport.x # Num(0)

\* the viewport after a zoom-in step followed by a zoom-out step
InThenOut == handleZoomOut(handleZoomIn(St)).vb.viewport

\* C14 as stated: from every viewport with a zoom in [0.1, 5], a zoom-in step
\* followed by a zoom-out step restores the zoom and the offset.
C14_RoundTripAnywhere ==
    InZoomRange(vb.viewport.zoom) => InThenOut = vb.viewport

\* C14: from a viewport whose zoom times 1.2 does not exceed 5, a zoom-in
\* step followed by a zoom-out step, both anchored at the centre of the
\* canvas, restores the zoom and the offset.
C14_RoundTripBelowCeiling ==
    ~RLess(MaxZoom, RMul(vb.viewport.zoom, Rat(6, 5)))
        => InThenOut = vb.viewport

\* the zoom-in and zoom-out buttons pressed in turn from the initial viewport
C14_Witness ==
    /\ last.op = "zoomOut"
    /\ gestures = 2
    /\ vb.viewport = initialBuilder.viewport

\* where the World Transform Container draws a world point, relative to the
\* canvas: transform translate(x, y) scale(zoom) with transformOrigin 0 0
worldTransform(viewport, world) ==
    [x |-> RAdd(RMul(world.x, viewport.zoom), viewport.x),
     y |-> RAdd(RMul(world.y, viewport.zoom), viewport.y)]

\* C15: under every reachable viewport, a screen point converted to world
\* coordinates by screenToWorld and drawn back by the rendering transform is
\* the same point relative to the canvas.
C15_ScreenWorldInverse ==
    \A p \in Points :
        worldTransform(vb.viewport, screenToWorld(vb, p.x, p.y))
            = [x |-> Num(p.x - RectLeft), y |-> Num(p.y - RectTop)]

\* a viewport that was zoomed and is being panned
C15_Witness ==
    /\ vb.viewport.zoom # Num(1)
    /\ vb.isPanning
    /\ last.op = "mousemove"
    /\ vb.viewport.x # Num(0)

-----------------------------------------------------------------------------
(* Properties of the gestures on the canvas *)

\* C16: while a pan is in progress, a move adds to the offset the distance
\* of the pointer from where the previous pointer event left it and changes
\* neither the zoom nor the pipeline; the release or the leave that ends a pan
\* with no wire being drawn changes neither the viewport nor the pipeline.
C16_PanAddsPointerDelta ==
    [][vb.isPanning =>
        /\ last'.op = "mousemove" =>
              /\ vb'.viewport =
                    [x |-> RAdd(vb.viewport.x, Num(pointer'.x - pointer.x)),
                     y |-> RAdd(vb.viewport.y, Num(pointer'.y - pointer.y)),
                     zoom |-> vb.viewport.zoom]
              /\ formState' = formState
        /\ (last'.op \in {"mouseup", "mouseleave"}
                /\ vb.connectingSourceId = Null) =>
              /\ vb'.viewport = vb.viewport
              /\ formState' = formState]_vars

\* a pan pressed at one point of the canvas and released at the other
C16_Witness ==
    /\ last.op = "mouseup"
    /\ ~vb.isPanning
    /\ vb.viewport = [x |-> Num(760 - PointerX), y |-> Num(400 - PointerY),
                      zoom |-> Num(1)]

\* the primary button, pressed on the body of a node while all was idle, is
\* let go over a part of that node
ReleaseOnPressed ==
    /\ grab.idle
    /\ 0 \in held
    /\ downTarget.el = "body"
    /\ downTarget.id = grab.id
    /\ last'.op = "mouseup"
    /\ pendingClick' # NoTarget
    /\ pendingClick'.id = grab.id

\* the builder once the click that follows the release was handled
AfterClick ==
    click([fs |-> formState', vb |-> vb', uuid |-> uuid'], pendingClick')

\* C17: a primary press on the body of a node while all is idle, released over
\* that node with no event in between, opens the editor for that node and
\* leaves the pipeline as it was at the press; released right after a move
\* that was handled during the drag, it does not open the editor.
C17_ClickOpensEditorUnlessMoved ==
    [][ReleaseOnPressed =>
        /\ (last.op = "mousedown" /\ held = {0}) =>
              /\ AfterClick.vb.editModal =
                    [isOpen |-> TRUE, node |-> NodeOf(formState, downTarget),
                     type |-> downTarget.kind]
              /\ AfterClick.fs = formState
              /\ NodeOf(formState, downTarget).position = grab.p0
        /\ last.op = "mousemove" => ~AfterClick.vb.editModal.isOpen]_vars

\* C18: when the pointer leaves the canvas while a drag, a wire or a pan is in
\* progress, no drag, wire or pan is in progress afterwards, the preview point
\* of the wire is cleared and the connections are what they were.
C18_LeaveCancels ==
    [][(last'.op = "mouseleave" /\ ~AllIdle(vb))
        => /\ AllIdle(vb')
           /\ vb'.mousePos = NoPos
           /\ formState'.connections = formState.connections]_vars

\* the pointer has left the canvas in the middle of a wire
C18_Witness ==
    /\ last.op = "mouseleave"
    /\ last.wiring
    /\ AllIdle(vb)
    /\ vb.mousePos = NoPos

\* C19: a drag starts only by a press of the primary button on the body of a
\* node while no wire is being drawn; a press on an input or output handle
\* leaves draggingId as it was.
C19_DragOnlyFromBody ==
    [][(vb'.draggingId # vb.draggingId /\ vb'.draggingId # Null)
        => /\ last'.op = "mousedown"
           /\ last'.el \in {"body", "trash"}
           /\ held' = held \cup {0}
           /\ vb.connectingSourceId = Null]_vars

\* C20: a press on the output handle of a node while nothing is in progress
\* starts a wire from a node of the pipeline, the pressed one (recorded for
\* the primary button), with the preview point at the world position of the
\* cursor, and starts neither a drag nor a pan.
C20_OutputPressStartsWire ==
    [][(AllIdle(vb) /\ last'.op = "mousedown" /\ last'.el = "output")
        => LET w == screenToWorld(vb, pointer.x, pointer.y)
           IN  /\ 0 \in held' \ held
                    => vb'.connectingSourceId = downTarget'.id
               /\ vb'.connectingSourceId \in NodeIds(formState)
               /\ vb'.mousePos = NodePosition(w.x, w.y)
               /\ vb'.draggingId = Null
               /\ ~vb'.isPanning]_vars

\* a wire started from an output handle under a zoomed viewport
C20_Witness ==
    /\ last.op = "mousedown"
    /\ last.el = "output"
    /\ ~last.wiring
    /\ vb.connectingSourceId = downTarget.id
    /\ vb.draggingId = Null
    /\ ~vb.isPanning
    /\ vb.viewport.zoom # Num(1)

-----------------------------------------------------------------------------
(* Properties of the graph as the builder edits it *)

IdsOf(nodes) == {nodes[i].id : i \in 1..Len(nodes)}

\* C21: a connection that a release of a wire adds ends on a transformation
\* or a target of the pipeline, never on a source.
C21_NoWireIntoSource ==
    [][(WireRelease /\ Len(formState'.connections) > Len(formState.connections))
        => LET c == formState'.connections[Len(formState'.connections)]
           IN  /\ c.targetId \notin IdsOf(formState'.dataSources)
               /\ c.targetId \in IdsOf(formState'.transformationNodes)
                                  \cup IdsOf(formState'.dataTargets)]_vars

\* a wire drawn from a target, 10, to the input handle of transformation t1:
\* with C5's wire from a source, a node of any kind starts a wire
C21_Witness ==
    /\ last.op = "mouseup" /\ last.el = "input" /\ last.wiring
    /\ Len(formState.connections) = 3
    /\ formState.connections[3].sourceId = "10"
    /\ formState.connections[3].targetId = "t1"

\* the nodes of a collection after the drop: the old ones and one new node
DroppedInto(after, before, position) ==
    /\ Len(after) = Len(before) + 1
    /\ SubSeq(after, 1, Len(before)) = before
    /\ after[Len(after)].position = position

\* C22: a drop tagged with a kind appends one node to the collection of that
\* kind, at the world position of the drop point less (100, 40) and not below
\* 0 on either axis, and changes nothing else of the pipeline; a drop with no
\* tag changes nothing.
C22_DropAddsOneNode ==
    [][last'.op = "drop" =>
        LET w == screenToWorld(vb, pointer'.x, pointer'.y)
            position == NodePosition(RMax(Num(0), RSub(w.x, Num(100))),
                                     RMax(Num(0), RSub(w.y, Num(40))))
        IN  /\ last'.el = "" => formState' = formState
            /\ last'.el \in Kinds =>
                  /\ formState'.connections = formState.connections
                  /\ \A kind \in Kinds :
                        IF kind = last'.el
                        THEN DroppedInto(Coll(formState', kind),
                                         Coll(formState, kind), position)
                        ELSE Coll(formState', kind) = Coll(formState, kind)]_vars

\* a transformation dropped under a zoomed viewport
C22_Witness ==
    /\ last.op = "drop"
    /\ last.el = "transformation"
    /\ Len(formState.transformationNodes) = 2
    /\ vb.viewport.zoom # Num(1)

\* ids and fields an update is called with: the ids of the pipeline and one
\* that no node has; a new name, a new position
UpdateIds == NodeIds(formState) \cup {"none"}
UpdateData ==
    {[name |-> "Orders"], [position |-> NodePosition(Num(7), Num(9))]}

\* C23: an update addressed to a collection with an id that no node of it has
\* changes nothing; with an id of the collection it merges the fields into
\* one node with that id and changes no other node and no connection.
C23_UpdateTouchesOneNode ==
    \A kind \in Kinds, id \in UpdateIds, data \in UpdateData :
        LET s == onUpdate(St, kind, id, data)
            before == Coll(formState, kind)
            after == Coll(s.fs, kind)
        IN  /\ s.fs.connections = formState.connections
            /\ \A k \in Kinds \ {kind} : Coll(s.fs, k) = Coll(formState, k)
            /\ Len(after) = Len(before)
            /\ id \notin IdsOf(before) => after = before
            /\ id \in IdsOf(before) =>
                  \E i \in 1..Len(before) :
                      /\ before[i].id = id
                      /\ after[i] = Merge(before[i], data)
                      /\ \A j \in 1..Len(before) \ {i} : after[j] = before[j]

\* C24: removing a connection by an id of the graph takes out the one
\* connection with that id and keeps the others, in their order, and all the
\* rest of the pipeline; removing by an id that no connection has changes
\* nothing.
C24_RemoveConnectionTakesOne ==
    \A id \in IdsOf(formState.connections) \cup {"none"} :
        LET s == removeConnection(St, id)
            before == formState.connections
            after == s.fs.connections
        IN  /\ [s.fs EXCEPT !.connections = before] = formState
            /\ id = "none" => after = before
            /\ id # "none" =>
                  \E i \in 1..Len(before) :
                      /\ before[i].id = id
                      /\ after = SubSeq(before, 1, i - 1)
                                    \o SubSeq(before, i + 1, Len(before))

\* the click path of a connection of the initial pipeline was clicked
C24_Witness ==
    /\ last.op = "click"
    /\ last.el = "hit"
    /\ Len(formState.connections) = 1
    /\ Len(NodesOf(formState)) = 3

\* C25: no two nodes of the pipeline, of one collection or of two, have the
\* same id.
C25_NodeIdsUnique ==
    Cardinality(NodeIds(formState)) = Len(NodesOf(formState))

-----------------------------------------------------------------------------
(* VisualBuilder: where the connections are attached to a node *)

\* the output end, right middle: w = 200
getNodeCenter(node) ==
    IF ~node.position.defined THEN [x |-> Num(0), y |-> Num(0)]
    ELSE [x |-> RAdd(node.position.x, Num(200)),
          y |-> RAdd(node.position.y, Num(50))]

\* the input end, left middle
getNodeInputPos(node) ==
    IF ~node.position.defined THEN [x |-> Num(0), y |-> Num(0)]
    ELSE [x |-> node.position.x, y |-> RAdd(node.position.y, Num(50))]

\* C26: a connection leaves a positioned node at (x + width, y + height / 2)
\* and enters it at (x, y + height / 2), for the width and the height of
\* which the palette drop takes the halves, 100 and 40, to centre a node.
C26_AnchorsAtMidHeight ==
    \A i \in 1..Len(NodesOf(formState)) :
        LET node == NodesOf(formState)[i]
        IN  node.position.defined =>
              /\ getNodeCenter(node) =
                    [x |-> RAdd(node.position.x, Num(2 * HalfWidth)),
                     y |-> RAdd(node.position.y, Num(HalfHeight))]
              /\ getNodeInputPos(node) =
                    [x |-> node.position.x,
                     y |-> RAdd(node.position.y, Num(HalfHeight))]

\* C27: a reset of the view sets the viewport to offset (0, 0) and zoom 1,
\* whatever it was, and changes nothing else of the builder, a drag, a wire or
\* a pan in progress included, and nothing of the pipeline.
C27_ResetViewOnlyViewport ==
    [][last'.op = "resetView"
        => /\ vb' = [vb EXCEPT !.viewport =
                        [x |-> Num(0), y |-> Num(0), zoom |-> Num(1)]]
           /\ formState' = formState]_vars

\* the view was reset, zoomed and moved, in the middle of a pan
C27_Witness ==
    /\ last.op = "resetView"
    /\ vb.isPanning
    /\ gestures = 2
    /\ vb.viewport = initialBuilder.viewport

-----------------------------------------------------------------------------
(* Properties of the request for the design document *)

\* the service failed: it rejected, or its response is missing or empty
Failed(outcome) ==
    outcome.rejects \/ ~outcome.hasResponse \/ outcome.text = ""

\* C28: when the request for the design document fails, by an error of the
\* service or by an empty response, the error list is exactly one message,
\* the response is still null, and the nodes and connections are the ones
\* there were.
C28_FailureIsOneMessage ==
    loading =>
        \A outcome \in ServiceOutcomes :
            Failed(outcome) =>
                LET app == handleSubmitSettled(AppSt, outcome)
                IN  /\ Len(app.errors) = 1
                    /\ app.response = NoResponse
                    /\ app.fs = formState

\* a request was refused for its rate while an auto-design was in flight
C28_Witness ==
    /\ last.op = "handleSubmitSettled"
    /\ last.el = "catch"
    /\ errors = <<"Rate Limit Exceeded: Please wait a moment.">>
    /\ response = NoResponse
    /\ ~loading
    /\ isAutoGenerating

-----------------------------------------------------------------------------
(* Properties of the mark that tells a drag from a click *)

\* a move handled while a node is held marks the drag as moved
MoveMarks ==
    last'.op = "mousemove" /\ vb.draggingId # Null => vb'.hasMovedRef

\* the mark went from set to clear in this step
MarkCleared == vb.hasMovedRef /\ ~vb'.hasMovedRef

-----------------------------------------------------------------------------
(* Properties of the positions of the nodes *)

\* the places of a collection whose node is the same before and after this
\* step, had a position and has another now
MovedPlaces(before, after) ==
    {i \in 1..Len(before) :
        /\ i <= Len(after)
        /\ after[i].id = before[i].id
        /\ before[i].position.defined
        /\ after[i].position # before[i].position}

\* the ids of the nodes that this step moved
Repositioned ==
    UNION {{Coll(formState, kind)[i].id :
                i \in MovedPlaces(Coll(formState, kind), Coll(formState', kind))} :
           kind \in Kinds}

\* the column that the default layout gives to a kind
DefaultX(kind) ==
    CASE kind = "source" -> 50
      [] kind = "transformation" -> 350
      [] OTHER -> 650

\* the default layout leaves every position that is set and sets every
\* other to the column of the kind and the row of the place
LayoutGivesDefaults(st) ==
    LET after == assignDefaultPositions(st)
    IN  \A kind \in Kinds :
            /\ Len(Coll(after.fs, kind)) = Len(Coll(st.fs, kind))
            /\ \A i \in 1..Len(Coll(st.fs, kind)) :
                    Coll(after.fs, kind)[i].position =
                        IF Coll(st.fs, kind)[i].position.defined
                        THEN Coll(st.fs, kind)[i].position
                        ELSE NodePosition(Num(DefaultX(kind)),
                                          Num(50 + 150 * (i - 1)))

\* C30: the default layout gives a position to every node without one,
\* x by its kind (50, 350, 650) and y = 50 + 150 * its index, and leaves the
\* position of every other node; after that a position changes only by a
\* drag of that node or by a placement (the layout of an auto-design).
C30_PositionChangesOnlyByDragOrPlacement ==
    [][/\ LayoutGivesDefaults(St)
       /\ formState' # formState =>
            \A id \in Repositioned :
                \/ last'.op = "mousemove" /\ vb.draggingId = id
                \/ last'.op = "autoSucceed"]_vars

-----------------------------------------------------------------------------
(* Properties of the add handlers *)

\* the node that a call without a position appends to its collection
Added(st, kind) ==
    LET nodes == Coll(addNode(st, kind, NoPos).fs, kind)
    IN  nodes[Len(nodes)]

\* the App as it starts
StartSt == [fs |-> initialState, vb |-> initialBuilder, uuid |-> 0]

\* C31: an add without a position appends one node with a fresh id, placed
\* by its kind and the number of nodes of that kind only: y = 50 + 150 * count,
\* x growing from sources to transformations to targets; every other node
\* and the connections stay, and two such adds in a row give two positions.
C31_AddPlacesByKindAndCount ==
    [][/\ RLess(Added(St, "source").position.x,
                Added(St, "transformation").position.x)
       /\ RLess(Added(St, "transformation").position.x,
                Added(St, "target").position.x)
       /\ \A kind \in Kinds :
            /\ Added(St, kind).position.x = Added(StartSt, kind).position.x
            /\ Added(St, kind).position.y
                    = Num(50 + 150 * Len(Coll(formState, kind)))
            /\ Added(addNode(St, kind, NoPos), kind).position
                    # Added(St, kind).position
       /\ last'.op = "addNode" =>
            /\ Coll(formState', last'.el)
                    = Append(Coll(formState, last'.el), Added(St, last'.el))
            /\ Added(St, last'.el).id \notin NodeIds(formState)
            /\ \A kind \in Kinds \ {last'.el} :
                    Coll(formState', kind) = Coll(formState, kind)
            /\ formState'.connections = formState.connections]_vars

\* two sources were added one after the other without a position
C31_Witness ==
    /\ last.op = "addNode"
    /\ last.el = "source"
    /\ Len(formState.dataSources) = 3
    /\ formState.dataSources[2].position = NodePosition(Num(50), Num(200))
    /\ formState.dataSources[3].position = NodePosition(Num(50), Num(350))

-----------------------------------------------------------------------------
(* Properties of a wire in progress *)

\* C32: while a wire is being drawn, a move puts the end of the preview at
\* the world position of the cursor and changes no node, no connection and
\* nothing of the viewport; and no press starts a node drag.
C32_WireMoveOnlyPreview ==
    [][vb.connectingSourceId # Null =>
        /\ last'.op = "mousemove" =>
            /\ vb'.mousePos =
                    LET w == screenToWorld(vb, pointer'.x, pointer'.y)
                    IN  NodePosition(w.x, w.y)
            /\ formState' = formState
            /\ vb'.viewport = vb.viewport
        /\ last'.op = "mousedown" => vb'.draggingId = vb.draggingId]_vars

-----------------------------------------------------------------------------
(* Properties of what a drag leaves alone *)

\* between the two pipelines nothing differs but the position of the node
\* of that kind and id
OnlyPositionOf(before, after, kind, id) ==
    /\ after.connections = before.connections
    /\ \A k \in Kinds :
        /\ Len(Coll(after, k)) = Len(Coll(before, k))
        /\ \A i \in 1..Len(Coll(before, k)) :
            IF k = kind /\ i = FindIndex(Coll(before, k), id)
            THEN Coll(after, k)[i] =
                    [Coll(before, k)[i] EXCEPT
                        !.position = Coll(after, k)[i].position]
            ELSE Coll(after, k)[i] = Coll(before, k)[i]

\* C33: the press, the moves and the release of a drag of node n, begun with
\* nothing else in progress, change nothing but the position of n: the other
\* nodes, the other attributes of n, the connections and the viewport stay.
C33_DragOnlyMovesItsNode ==
    [][/\ (last'.op = "mousedown" /\ grab' # grab /\ grab'.idle)
            => /\ OnlyPositionOf(formState, formState', grab'.kind, grab'.id)
               /\ vb'.viewport = vb.viewport
       /\ (/\ last'.op \in {"mousemove", "mouseup"}
           /\ vb.draggingId # Null /\ grab.id = vb.draggingId /\ grab.idle)
            => /\ OnlyPositionOf(formState, formState', grab.kind, grab.id)
               /\ vb'.viewport = vb.viewport]_vars

-----------------------------------------------------------------------------
(* VisualBuilder renderConnections: the curves of the connections and of   *)
(* the wire being drawn                                                    *)

\* Math.abs
RAbs(a) == IF a.n < 0 THEN [n |-> -a.n, d |-> a.d] ELSE a

\* `M start C c1, c2, end`: a cubic Bezier by its four points
Bezier(start, controlDist, end) ==
    [start |-> [x |-> start.x, y |-> start.y],
     c1 |-> [x |-> RAdd(start.x, controlDist), y |-> start.y],
     c2 |-> [x |-> RSub(end.x, controlDist), y |-> end.y],
     end |-> [x |-> end.x, y |-> end.y]]

NoPath == [drawn |-> FALSE]

\* Existing Connections: the visible path and the wide transparent path
\* that takes the click
connectionPaths(fs, conn) ==
    LET source == findNode(fs, conn.sourceId)
        target == findNode(fs, conn.targetId)
    IN  IF ~source.position.defined \/ ~target.position.defined THEN NoPath
        ELSE LET start == getNodeCenter(source)
                 end == getNodeInputPos(target)
                 controlDist ==
                    RAdd(RMul(RAbs(RSub(end.x, start.x)), Rat(1, 2)), Num(50))
                 path == Bezier(start, controlDist, end)
             IN  [drawn |-> TRUE, visible |-> path, hit |-> path]

\* Active Drawing Line
activeLine(b, fs) ==
    IF b.connectingSourceId = Null \/ ~b.mousePos.defined THEN NoPath
    ELSE LET source == findNode(fs, b.connectingSourceId)
         IN  IF ~source.position.defined THEN NoPath
             ELSE LET start == getNodeCenter(source)
                      end == b.mousePos
                      controlDist ==
                        RMul(RAbs(RSub(end.x, start.x)), Rat(1, 2))
                  IN  [drawn |-> TRUE, visible |-> Bezier(start, controlDist, end)]

-----------------------------------------------------------------------------
(* SpecRoute: the builder over the initial pipeline, the pointer moving     *)
(* between points of which one is level with an output anchor              *)

RoutePoints ==
    {[x |-> PointerX, y |-> PointerY], [x |-> 250, y |-> 400],
     [x |-> 760, y |-> 400]}

NextRoute ==
    \/ \E tg \in DragTargets(formState) : MouseDown(tg, 0)
    \/ \E p \in RoutePoints : MouseMove(p.x, p.y)
    \/ \E tg \in DragTargets(formState) : MouseUp(tg, 0)
    \/ Click
    \/ MouseLeave
    \/ CloseEdit

SpecRoute == InitDrag /\ [][NextRoute]_vars

-----------------------------------------------------------------------------
(* Properties of the curves *)

\* half the horizontal distance between the ends
HalfSpan(path) == RMul(RAbs(RSub(path.end.x, path.start.x)), Rat(1, 2))

\* the control points lie level with the ends, d to the right of the start
\* and d to the left of the end
ControlsAt(path, d) ==
    /\ path.c1 = [x |-> RAdd(path.start.x, d), y |-> path.start.y]
    /\ path.c2 = [x |-> RSub(path.end.x, d), y |-> path.end.y]

\* the curve leaves its start and reaches its end horizontally: each control
\* point is level with its end and apart from it
HorizontalTangents(path) ==
    /\ path.c1.y = path.start.y /\ path.c1.x # path.start.x
    /\ path.c2.y = path.end.y /\ path.c2.x # path.end.x

\* the control distance of a path
ControlDist(path) == RSub(path.c1.x, path.start.x)

\* C34: every curve is a cubic Bezier whose control points are (start.x + d,
\* start.y) and (end.x - d, end.y), with horizontal tangents at both ends; d
\* is the larger of half the horizontal span and a positive minimum for the
\* wire being drawn, and half the span plus 50 for a connection; the path
\* that takes the click on a connection is the path that is drawn.
C34_CurvesLeaveLevel ==
    /\ LET line == activeLine(vb, formState)
       IN  line.drawn =>
            /\ ControlsAt(line.visible, ControlDist(line.visible))
            /\ ~RLess(ControlDist(line.visible), HalfSpan(line.visible))
            /\ RLess(Num(0), ControlDist(line.visible))
            /\ HorizontalTangents(line.visible)
    /\ \A i \in 1..Len(formState.connections) :
        LET paths == connectionPaths(formState, formState.connections[i])
        IN  paths.drawn =>
            /\ ControlsAt(paths.visible,
                          RAdd(HalfSpan(paths.visible), Num(50)))
            /\ HorizontalTangents(paths.visible)
            /\ paths.hit = paths.visible

-----------------------------------------------------------------------------
(* Properties of the wire and the node editor *)

\* C35: a wire never opens the node editor: after a press and a release on
\* the output handle of a node, a wire started and given up, the editor is
\* closed, whether or not an earlier drag left its mark.
C35_WireNeverOpensEditor ==
    [][(/\ last'.op = "click"
        /\ last'.el = "output"
        /\ ~vb.editModal.isOpen)
        => ~vb'.editModal.isOpen]_vars

-----------------------------------------------------------------------------
(* Properties of the follow-up chat *)

\* the texts joined in order
RECURSIVE Concat(_)
Concat(texts) ==
    IF texts = <<>> THEN <<>> ELSE Head(texts) \o Concat(Tail(texts))

\* C36: the model message of a send whose stream closed without an error
\* holds the fragments that were delivered, joined in their order; when a
\* stream throws, the message holds what was delivered before, nothing is
\* read after, and one error message follows it in the conversation.
C36_ReplyIsFragmentsInOrder ==
    \A k \in 1..Len(chat.done) :
        LET send == chat.done[k]
        IN  /\ chat.messages[send.at].role = "model"
            /\ chat.messages[send.at].text = Concat(Delivered(send.upstream))
            /\ IF send.threw
               THEN /\ Len(chat.messages) > send.at
                    /\ chat.messages[send.at + 1] =
                            ChatMessage("model", <<"S", "o", "r", "r", "y">>)
                    /\ \/ Len(chat.messages) = send.at + 1
                       \/ chat.messages[send.at + 2].role = "user"
               ELSE \/ Len(chat.messages) = send.at
                    \/ chat.messages[send.at + 1].role = "user"

\* a stream of three chunks closed, and a second one threw after two
C36_Witness ==
    /\ Len(chat.done) = 2
    /\ ~chat.done[1].threw
    /\ chat.messages[chat.done[1].at].text = <<"a", "b", "c">>
    /\ chat.done[2].threw
    /\ chat.messages[chat.done[2].at].text = <<"a">>
    /\ Len(chat.messages) = 5

\* C37: at most one stream is read at a time: a send while isLoading or with
\* a blank input changes nothing, isLoading is true exactly while a stream
\* is read, and so the messages of two sends do not interleave.
C37_OneStreamAtATime ==
    [][/\ Len(chat.streams) <= 1
       /\ chat.isLoading <=> chat.streams # <<>>
       /\ last'.op = "handleSend" /\ (chat.isLoading \/ Trim(chat.input) = <<>>)
            => chat' = chat
       /\ last'.op = "streamEnd" => ~chat'.isLoading
       /\ \A i \in 1..Len(chat.streams) :
            chat.streams[i].at = Len(chat.messages)]_vars

\* a send was tried while the stream of the send before was being read
C37_Witness ==
    /\ last.op = "handleSend"
    /\ chat.isLoading
    /\ Len(chat.streams) = 1
    /\ chat.streams[1].pos = 1
    /\ Len(chat.messages) = 2

-----------------------------------------------------------------------------
(* Properties of the loading flag *)

\* the pipeline passes the checks of a request: the technical requirements
\* are not blank and there is a source and a target
Submittable(fs) ==
    /\ Trim(fs.techRequirements) # <<>>
    /\ Len(fs.dataSources) >= 1
    /\ Len(fs.dataTargets) >= 1

\* C38: loading is true exactly while a request for the design document is
\* in flight: a submit sets it when, and only when, the checks pass; the
\* settling of the request clears it, on success and on failure alike; and
\* nothing else changes it.
C38_LoadingWhileInFlight ==
    [][IF last'.op = "handleSubmit"
       THEN ~loading /\ (loading' <=> Submittable(formState))
       ELSE IF last'.op = "handleSubmitSettled"
       THEN loading /\ ~loading'
       ELSE loading' = loading]_vars

\* a request came back with a document, and loading is off
C38_Witness ==
    /\ last.op = "handleSubmitSettled"
    /\ last.el = "try"
    /\ ~loading
    /\ response = <<"# Solution">>

-----------------------------------------------------------------------------
(* Properties of the auto-design request *)

Positioned(nodes) == \A i \in 1..Len(nodes) : nodes[i].position.defined

\* the nodes are the returned ones, in their order: a returned id is kept,
\* a missing one is drawn
ReturnedNodes(nodes, raw) ==
    /\ Len(nodes) = Len(raw)
    /\ \A i \in 1..Len(raw) : raw[i].id # "" => nodes[i].id = raw[i].id

ConnectionsOf(conns, raw) ==
    /\ Len(conns) = Len(raw)
    /\ \A i \in 1..Len(raw) :
          /\ conns[i].sourceId = raw[i].sourceId
          /\ conns[i].targetId = raw[i].targetId

\* C39: an auto-design request that succeeds replaces the sources, the
\* transformations, the targets and the connections by those of one answer,
\* every node with a position, and keeps the requirement texts and the tool
\* list; a request that fails leaves the pipeline as it was and appends one
\* error to the list; in both cases isAutoGenerating is false afterwards.
C39_AutoDesignReplacesTogether ==
    [][IF last'.op = "autoSucceed"
       THEN /\ \E result \in AutoResults :
                  /\ ReturnedNodes(formState'.dataSources, result.dataSources)
                  /\ ReturnedNodes(formState'.transformationNodes,
                             result.transformationNodes)
                  /\ ReturnedNodes(formState'.dataTargets, result.dataTargets)
                  /\ ConnectionsOf(formState'.connections, result.connections)
            /\ Positioned(formState'.dataSources)
            /\ Positioned(formState'.transformationNodes)
            /\ Positioned(formState'.dataTargets)
            /\ formState'.techRequirements = formState.techRequirements
            /\ formState'.productRequirements = formState.productRequirements
            /\ formState'.existingTools = formState.existingTools
            /\ errors' = errors
            /\ ~isAutoGenerating'
       ELSE IF last'.op = "autoFail"
       THEN /\ formState' = formState
            /\ Len(errors') = Len(errors) + 1
            /\ SubSeq(errors', 1, Len(errors)) = errors
            /\ ~isAutoGenerating'
       ELSE TRUE]_vars

\* an answer with a source, a target and a connection replaced the pipeline
\* while the requirements, edited during the request, stayed as typed
C39_Witness ==
    /\ last.op = "autoSucceed"
    /\ ~isAutoGenerating
    /\ formState.techRequirements = <<"E", "T", "L">>
    /\ Len(formState.dataSources) = 1
    /\ Len(formState.dataTargets) = 1
    /\ Len(formState.connections) = 1
    /\ Positioned(formState.dataSources)
    /\ Positioned(formState.dataTargets)

=============================================================================
